---- MODULE Spec2Model ----
(***************************************************************************)
(* State-machine model of the openlayer-map components and services:      *)
(* DrawingService and the drawing handlers of MapComponent, LayerManager   *)
(* (feature highlight, style resolution, fit), the selected-feature        *)
(* effect, and the base-layer initialization of ImprovedMapComponent.      *)
(* The host map engine (OpenLayers) is modelled by the calls made on it.   *)
(***************************************************************************)
EXTENDS Integers, Sequences, FiniteSets, TLC

\* ---------------------------------------------------------------- bounds
MaxGen == 3         \* startDrawing calls that construct handlers
MaxDrawn == 2       \* features held by the drawing source
MaxLog == 2         \* callback invocations recorded
MaxFeatures == 2    \* features of the main vector layer
MaxRuns == 3        \* effect runs that build layers
MaxMaps == 3        \* Map instances constructed by useMapInitialization
MaxRenders == 3     \* renders of App after the mount
MaxLoads == 2       \* initializations of the base layers that await
MaxRing == 2        \* positions of a footprint's outer ring

\* ------------------------------------------------------------- constants
\* JavaScript null for an object reference; object identities start at 1.
NULL == 0

\* MAP_CONSTANTS
DEFAULT_ZOOM == 10
MIN_ZOOM == 1

DRAWING_MODES ==
    [NONE |-> "none", POLYGON |-> "polygon", LINE |-> "line", POINT |-> "point"]

\* The type arguments startDrawing is exercised with: the four modes and a
\* string that is no mode (the switch's default branch).
TypeArgs == {"none", "polygon", "line", "point", "circle"}

\* ------------------------------------------------------------- variables
VARIABLES
    \* DrawingService fields
    drawInteraction, modifyInteraction, snapInteraction,
    drawingSource,        \* features of drawingLayer.getSource(), in order
    nextId,               \* identity of the next object constructed
    \* the map the service is bound to
    interactions,         \* handlers attached with map.addInteraction
    drawingLayerOnMap,    \* map.getLayers() includes the drawing layer
    \* MapComponent
    map,                  \* the map instance the component holds, or NULL
    currentDrawingMode,   \* useState(DRAWING_MODES.NONE)
    onPolygonDraw,        \* the prop is a function (TRUE) or null (FALSE)
    \* observations
    mapCalls,             \* add/removeInteraction calls of the last operation
    onDrawEndCalls,       \* invocations of the onDrawEnd callbacks
    onPolygonDrawCalls,   \* values the subscriber was notified with
    history,              \* the last two operations called
    \* main vector layer, selection and view
    component,            \* which component file is mounted
    mainVectorLayer,      \* useState(null): NULL or the layer
    features,             \* features of the main layer's source
    featureStyle,         \* per feature: the style set with setStyle
    selectedRowIndex,     \* the prop
    viewCalls,            \* view.fit / view.animate calls of the last operation
    warnings,             \* console diagnostics of the last operation
    \* main layer styling
    entityColor,          \* the prop: given or not, and what it does per feature
    renderPass,           \* the last pass of the layer's style function
    \* base layers (ImprovedMapComponent)
    runs,                 \* the initializeBaseLayers invocations, oldest first
    mapLayers,            \* tile layers added with map.addLayer, per map
    visibleLayers,        \* tile layers whose visible flag is set
    baseLayers,           \* useState({}): the layers by id
    baseLayerConfigs,     \* useState([])
    selectedBaseLayer,    \* useState('')
    layerError,           \* useState(null)
    isLoadingLayers,      \* useState(true)
    layerArray,           \* AdvancedOpenLayersMap: map.getLayers().getArray()
    \* useMapInitialization
    mounted,              \* the component is mounted
    deps,                 \* [mapElementId, center, zoom] of the last render
    mapRef,               \* mapRef.current: NULL or a map instance
    isMapReady,           \* useState(false)
    maps,                 \* the Map instances constructed, by identity
    returned,             \* { map, isMapReady } of the last render
    \* main-layer effect
    mainLayer,            \* the prop: null or the GeoJSON object given
    mainCleanup,          \* the cleanup the last run of the effect returned
    timers,               \* pending setTimeout callbacks of the auto-fit
    \* WMTSConfigService.getConfiguredBaseLayers
    configIndex,          \* position of the for loop in baseLayerConfigs
    catalogLayers,        \* the local array layers
    responses,            \* what each catalog query of the call came to
    settled,              \* the promise of the call
    \* zoom controls
    viewZoom,             \* view.getZoom()
    animation,            \* the last view.animate call, if any
    \* WMTSConfigService.extractBoundingBox
    footprint,            \* the argument
    boundingBox           \* the value returned

drawVars == <<drawInteraction, modifyInteraction, snapInteraction,
              drawingSource, nextId, interactions, drawingLayerOnMap, map,
              currentDrawingMode, onPolygonDraw, mapCalls, onDrawEndCalls,
              onPolygonDrawCalls, history>>

selVars == <<component, mainVectorLayer, features, featureStyle,
             selectedRowIndex, viewCalls, warnings>>

styleVars == <<entityColor, renderPass>>

baseVars == <<runs, mapLayers, visibleLayers, baseLayers, baseLayerConfigs,
              selectedBaseLayer, layerError, isLoadingLayers, layerArray>>

hookVars == <<mounted, deps, mapRef, isMapReady, maps, returned>>

\* The state of the hooks and services that have a specification of their
\* own.
mainVars == <<mainLayer, mainCleanup, timers>>

catalogVars == <<configIndex, catalogLayers, responses, settled>>

zoomVars == <<viewZoom, animation>>

bboxVars == <<footprint, boundingBox>>

utilVars == <<catalogVars, zoomVars, bboxVars>>

restVars == <<hookVars, mainVars, utilVars>>

vars == <<drawVars, selVars, styleVars, baseVars, restVars>>

\* ---------------------------------------------------------------- helpers
Last2(h, e) == IF Len(h) < 2 THEN Append(h, e) ELSE <<h[2], e>>

\* The geometries a user can finish with a Draw handler of each type.  A
\* finished polygon's ring is closed by the Draw interaction.
DrawnGeometries(gtype) ==
    CASE gtype = "Point"      -> {[type |-> "Point", coords |-> <<<<1, 2>>>>]}
      [] gtype = "LineString" -> {[type |-> "LineString",
                                   coords |-> <<<<0, 0>>, <<1, 1>>>>]}
      [] gtype = "Polygon"    -> {[type |-> "Polygon",
                                   coords |-> <<<<0, 0>>, <<1, 0>>, <<1, 1>>, <<0, 0>>>>]}
      [] OTHER                -> {}

RECURSIVE JoinCoords(_)
JoinCoords(cs) ==
    IF cs = <<>> THEN ""
    ELSE ToString(cs[1][1]) \o " " \o ToString(cs[1][2])
         \o (IF Len(cs) > 1 THEN "," \o JoinCoords(Tail(cs)) ELSE "")

\* wktFormat.writeGeometry of the cloned geometry (the transform from
\* EPSG:4326 to EPSG:4326 leaves the coordinates as they are).
geometryToWKT(geometry) ==
    CASE geometry.type = "Point" ->
            "POINT(" \o JoinCoords(geometry.coords) \o ")"
      [] geometry.type = "LineString" ->
            "LINESTRING(" \o JoinCoords(geometry.coords) \o ")"
      [] OTHER ->
            "POLYGON((" \o JoinCoords(geometry.coords) \o "))"

\* ------------------------------------------------------- DrawingService
\* The service together with its map and the component state of the drawing
\* handlers, as one value the methods transform.
svc ==
    [drawInteraction |-> drawInteraction,
     modifyInteraction |-> modifyInteraction,
     snapInteraction |-> snapInteraction,
     drawingSource |-> drawingSource,
     nextId |-> nextId,
     interactions |-> interactions,
     drawingLayerOnMap |-> drawingLayerOnMap,
     mapCalls |-> <<>>,
     onDrawEndCalls |-> onDrawEndCalls,
     currentDrawingMode |-> currentDrawingMode,
     onPolygonDrawCalls |-> onPolygonDrawCalls]

removeInteraction(s, id) ==
    [s EXCEPT !.interactions = {h \in @ : h.id # id},
              !.mapCalls = Append(@, [call |-> "removeInteraction", id |-> id])]

addInteraction(s, h) ==
    [s EXCEPT !.interactions = @ \cup {h},
              !.mapCalls = Append(@, [call |-> "addInteraction", id |-> h.id])]

stopDrawing_Unguarded(s) ==
    [removeInteraction(removeInteraction(removeInteraction(s,
            s.drawInteraction), s.modifyInteraction), s.snapInteraction)
        EXCEPT !.drawInteraction = NULL, !.modifyInteraction = NULL,
               !.snapInteraction = NULL]

stopDrawing_LeavesAttached(s) ==
    [s EXCEPT !.drawInteraction = NULL, !.modifyInteraction = NULL,
              !.snapInteraction = NULL]

stopDrawing(s) ==
    LET s1 == IF s.drawInteraction # NULL
              THEN [removeInteraction(s, s.drawInteraction)
                        EXCEPT !.drawInteraction = NULL]
              ELSE s
        s2 == IF s1.modifyInteraction # NULL
              THEN [removeInteraction(s1, s1.modifyInteraction)
                        EXCEPT !.modifyInteraction = NULL]
              ELSE s1
    IN  IF s2.snapInteraction # NULL
        THEN [removeInteraction(s2, s2.snapInteraction)
                  EXCEPT !.snapInteraction = NULL]
        ELSE s2

\* The switch of startDrawing: the geometry type of a mode, "" for default.
geometryTypeOf(type) ==
    CASE type = DRAWING_MODES.POLYGON -> "Polygon"
      [] type = DRAWING_MODES.LINE    -> "LineString"
      [] type = DRAWING_MODES.POINT   -> "Point"
      [] OTHER                        -> ""

\* new Draw / new Modify / new Snap on the drawing source, then the three
\* addInteraction calls and the conditional addLayer.
attachHandlers(s, type, onDrawEnd) ==
    LET draw   == [id |-> s.nextId, kind |-> "Draw",
                   type |-> geometryTypeOf(type), onDrawEnd |-> onDrawEnd]
        modify == [id |-> s.nextId + 1, kind |-> "Modify",
                   type |-> "", onDrawEnd |-> NULL]
        snap   == [id |-> s.nextId + 2, kind |-> "Snap",
                   type |-> "", onDrawEnd |-> NULL]
        s1 == [s EXCEPT !.drawInteraction = draw.id,
                        !.modifyInteraction = modify.id,
                        !.snapInteraction = snap.id,
                        !.nextId = @ + 3]
    IN  [addInteraction(addInteraction(addInteraction(s1, draw), modify), snap)
            EXCEPT !.drawingLayerOnMap = TRUE]

startDrawing_NoStop(s, type, onDrawEnd) ==
    IF type = DRAWING_MODES.NONE \/ geometryTypeOf(type) = ""
    THEN s
    ELSE attachHandlers(s, type, onDrawEnd)

startDrawing_AlwaysPolygon(s, type, onDrawEnd) ==
    LET s1 == stopDrawing(s)
    IN  IF type = DRAWING_MODES.NONE \/ geometryTypeOf(type) = ""
        THEN s1
        ELSE attachHandlers(s1, DRAWING_MODES.POLYGON, onDrawEnd)

startDrawing_FreshSource(s, type, onDrawEnd) ==
    LET s1 == [stopDrawing(s) EXCEPT !.drawingSource = <<>>]
    IN  IF type = DRAWING_MODES.NONE \/ geometryTypeOf(type) = ""
        THEN s1
        ELSE attachHandlers(s1, type, onDrawEnd)

startDrawing_NoneReturnsFirst(s, type, onDrawEnd) ==
    IF type = DRAWING_MODES.NONE THEN s
    ELSE IF geometryTypeOf(type) = "" THEN stopDrawing(s)
    ELSE attachHandlers(stopDrawing(s), type, onDrawEnd)

startDrawing(s, type, onDrawEnd) ==
    LET s1 == stopDrawing(s)
    IN  IF type = DRAWING_MODES.NONE THEN s1
        ELSE IF geometryTypeOf(type) = "" THEN s1
        ELSE attachHandlers(s1, type, onDrawEnd)

clearDrawing_KeepsFirst(s) ==
    [s EXCEPT !.drawingSource = IF @ = <<>> THEN @ ELSE <<@[1]>>]

clearDrawing(s) == [s EXCEPT !.drawingSource = <<>>]

isDrawing(s) == s.drawInteraction # NULL

drawend_StopsDrawing(s, h, geometry) ==
    stopDrawing([s EXCEPT !.drawingSource = Append(@, geometry)])

\* A finished sketch on Draw handler h: the 'drawend' listener registered
\* by startDrawing runs, and the Draw interaction adds the feature to its
\* source.
drawend(s, h, geometry) ==
    LET s1 == [s EXCEPT !.drawingSource = Append(@, geometry)]
    IN  IF h.onDrawEnd # NULL
        THEN [s1 EXCEPT !.onDrawEndCalls =
                  Append(@, [cb |-> h.onDrawEnd, wkt |-> geometryToWKT(geometry)])]
        ELSE s1

\* Writes a service value back to the variables.
Commit(s) ==
    /\ drawInteraction' = s.drawInteraction
    /\ modifyInteraction' = s.modifyInteraction
    /\ snapInteraction' = s.snapInteraction
    /\ drawingSource' = s.drawingSource
    /\ nextId' = s.nextId
    /\ interactions' = s.interactions
    /\ drawingLayerOnMap' = s.drawingLayerOnMap
    /\ mapCalls' = s.mapCalls
    /\ onDrawEndCalls' = s.onDrawEndCalls
    /\ currentDrawingMode' = s.currentDrawingMode
    /\ onPolygonDrawCalls' = s.onPolygonDrawCalls

AttachedDraw == {h \in interactions : h.kind = "Draw"}

\* ---------------------------------------- DrawingService driven directly
InitDrawing ==
    /\ drawInteraction = NULL
    /\ modifyInteraction = NULL
    /\ snapInteraction = NULL
    /\ drawingSource = <<>>
    /\ nextId = 1
    /\ interactions = {}
    /\ mapCalls = <<>>
    /\ onDrawEndCalls = <<>>
    /\ onPolygonDrawCalls = <<>>
    /\ history = <<>>
    /\ currentDrawingMode = DRAWING_MODES.NONE

\* No main layer: the state of the selection part before any layer is given.
IdleSelection ==
    /\ component = "MapComponent.jsx"
    /\ mainVectorLayer = NULL
    /\ features = <<>>
    /\ featureStyle = <<>>
    /\ selectedRowIndex = "undefined"
    /\ viewCalls = <<>>
    /\ warnings = <<>>

\* No entityColor prop and no style pass yet.
IdleStyle ==
    /\ entityColor = [given |-> FALSE, result |-> <<>>]
    /\ renderPass = [done |-> FALSE, styles |-> <<>>, error |-> FALSE, warned |-> 0]

\* The component's base-layer state before any initialization.
IdleBase ==
    /\ runs = <<>>
    /\ mapLayers = {}
    /\ visibleLayers = {}
    /\ baseLayers = {}
    /\ baseLayerConfigs = <<>>
    /\ selectedBaseLayer = ""
    /\ layerError = "null"
    /\ isLoadingLayers = TRUE
    /\ layerArray = <<>>

\* useMapInitialization before the component is rendered.
IdleHook ==
    /\ mounted = FALSE
    /\ deps = [mapElementId |-> "openlayers-map", center |-> "DEFAULT_CENTER", zoom |-> 10]
    /\ mapRef = NULL
    /\ isMapReady = FALSE
    /\ maps = <<>>
    /\ returned = [map |-> NULL, isMapReady |-> FALSE]

\* The mainLayer prop: null, or a GeoJSON feature collection.
NullMainLayer == [type |-> "null", features |-> <<>>]
FeatureCollection(fs) == [type |-> "FeatureCollection", features |-> fs]

\* No cleanup: the effect returned undefined.
NoCleanup == [map |-> NULL, layer |-> NULL]

\* The main-layer effect before the component is rendered.
IdleMain ==
    /\ mainLayer = NullMainLayer
    /\ mainCleanup = NoCleanup
    /\ timers = {}

\* No call of getConfiguredBaseLayers has been made.
IdleCatalog ==
    /\ configIndex = 0
    /\ catalogLayers = <<>>
    /\ responses = <<>>
    /\ settled = "none"

\* The view at DEFAULT_ZOOM, no animation requested.
IdleZoom ==
    /\ viewZoom = DEFAULT_ZOOM
    /\ animation = <<>>

\* A footprint that is null: record.footprint of a record without one.
NullFootprint == [type |-> "null", coordinates |-> <<>>]

\* No call of extractBoundingBox has been made.
IdleBBox ==
    /\ footprint = NullFootprint
    /\ boundingBox = <<>>

IdleUtil ==
    /\ IdleCatalog
    /\ IdleZoom
    /\ IdleBBox

IdleRest ==
    /\ IdleHook
    /\ IdleMain
    /\ IdleUtil

InitService ==
    /\ InitDrawing
    /\ IdleRest
    /\ IdleSelection
    /\ IdleStyle
    /\ IdleBase
    /\ drawingLayerOnMap = FALSE
    /\ onPolygonDraw = FALSE
    /\ map = 1

\* A client calls startDrawing(map, type, onDrawEnd); the callback is a
\* fresh closure (identified with the call) or absent.
StartDrawing ==
    \E type \in TypeArgs, withCallback \in BOOLEAN :
        /\ nextId <= 3 * (MaxGen - 1) + 1
        /\ Commit(startDrawing(svc, type, IF withCallback THEN nextId ELSE NULL))
        /\ history' = Last2(history, [op |-> "startDrawing", arg |-> type])
        /\ UNCHANGED <<onPolygonDraw, map, selVars, styleVars, baseVars, restVars>>

StopDrawing ==
    /\ Commit(stopDrawing(svc))
    /\ history' = Last2(history, [op |-> "stopDrawing", arg |-> ""])
    /\ UNCHANGED <<onPolygonDraw, map, selVars, styleVars, baseVars, restVars>>

ClearDrawing ==
    /\ Commit(clearDrawing(svc))
    /\ history' = Last2(history, [op |-> "clearDrawing", arg |-> ""])
    /\ UNCHANGED <<onPolygonDraw, map, selVars, styleVars, baseVars, restVars>>

\* The user finishes a sketch: the map delivers the event to a Draw handler
\* that is attached to it.
DrawEnd ==
    \E h \in AttachedDraw : \E g \in DrawnGeometries(h.type) :
        /\ Len(drawingSource) < MaxDrawn
        /\ Len(onDrawEndCalls) < MaxLog
        /\ Commit(drawend(svc, h, g))
        /\ history' = Last2(history, [op |-> "drawend", arg |-> h.type])
        /\ UNCHANGED <<onPolygonDraw, map, selVars, styleVars, baseVars, restVars>>

NextService == StartDrawing \/ StopDrawing \/ ClearDrawing \/ DrawEnd

SpecService == InitService /\ [][NextService]_vars

\* ------------------------------------------- MapComponent drawing handlers
handleDrawingModeChange_ModeOnly(c, mode) ==
    [c EXCEPT !.currentDrawingMode = mode]

handleDrawingModeChange(c, mode) ==
    LET c1 == [c EXCEPT !.currentDrawingMode = mode]
    IN  IF mode = DRAWING_MODES.NONE
        THEN stopDrawing(c1)
        ELSE startDrawing(c1, mode, c1.nextId)

handleClearDrawing_NoStop(c) ==
    LET c2 == clearDrawing(c)
    IN  IF onPolygonDraw
        THEN [c2 EXCEPT !.onPolygonDrawCalls = Append(@, "null")]
        ELSE c2

handleClearDrawing(c) ==
    LET c1 == stopDrawing(c)
        c2 == clearDrawing(c1)
        c3 == [c2 EXCEPT !.currentDrawingMode = DRAWING_MODES.NONE]
    IN  IF onPolygonDraw
        THEN [c3 EXCEPT !.onPolygonDrawCalls = Append(@, "null")]
        ELSE c3

\* The closure handleDrawingModeChange passes as onDrawEnd: it forwards the
\* WKT to the onPolygonDraw prop when there is one.
onDrawEndWrapper(c, wkt) ==
    IF onPolygonDraw
    THEN [c EXCEPT !.onPolygonDrawCalls = Append(@, wkt)]
    ELSE c

\* The drawing-layer effect has added the drawing layer when the controls
\* are rendered.
InitComponent ==
    /\ InitDrawing
    /\ IdleRest
    /\ IdleSelection
    /\ IdleStyle
    /\ IdleBase
    /\ drawingLayerOnMap = TRUE
    /\ onPolygonDraw \in BOOLEAN
    /\ map \in {NULL, 1}

HandleDrawingModeChange ==
    \E mode \in {DRAWING_MODES.NONE, DRAWING_MODES.POLYGON,
                 DRAWING_MODES.LINE, DRAWING_MODES.POINT} :
        IF map = NULL
        THEN UNCHANGED vars
        ELSE /\ nextId <= 3 * (MaxGen - 1) + 1
             /\ Commit(handleDrawingModeChange(svc, mode))
             /\ history' = Last2(history, [op |-> "handleDrawingModeChange",
                                           arg |-> mode])
             /\ UNCHANGED <<onPolygonDraw, map, selVars, styleVars, baseVars, restVars>>

HandleClearDrawing ==
    IF map = NULL
    THEN UNCHANGED vars
    ELSE /\ Len(onPolygonDrawCalls) < MaxLog
         /\ Commit(handleClearDrawing(svc))
         /\ history' = Last2(history, [op |-> "handleClearDrawing", arg |-> ""])
         /\ UNCHANGED <<onPolygonDraw, map, selVars, styleVars, baseVars, restVars>>

DrawEndComponent ==
    \E h \in AttachedDraw : \E g \in DrawnGeometries(h.type) :
        /\ Len(drawingSource) < MaxDrawn
        /\ Len(onDrawEndCalls) < MaxLog
        /\ Len(onPolygonDrawCalls) < MaxLog
        /\ Commit(onDrawEndWrapper(drawend(svc, h, g), geometryToWKT(g)))
        /\ history' = Last2(history, [op |-> "drawend", arg |-> h.type])
        /\ UNCHANGED <<onPolygonDraw, map, selVars, styleVars, baseVars, restVars>>

NextComponent == HandleDrawingModeChange \/ HandleClearDrawing \/ DrawEndComponent

SpecComponent == InitComponent /\ [][NextComponent]_vars

\* ------------------------------------------------------ numbers, extents
\* A JavaScript number: finite (inf = 0) or +/-Infinity.
Num(v) == [inf |-> 0, v |-> v]
Infinity == [inf |-> 1, v |-> 0]
NegInfinity == [inf |-> -1, v |-> 0]

isFinite(n) == n.inf = 0

NumLess(a, b) == a.inf < b.inf \/ (a.inf = 0 /\ b.inf = 0 /\ a.v < b.v)
NumMin(a, b) == IF NumLess(b, a) THEN b ELSE a
NumMax(a, b) == IF NumLess(a, b) THEN b ELSE a

\* ol/extent createEmpty, extend and isEmpty.
createEmpty == <<Infinity, Infinity, NegInfinity, NegInfinity>>

extend(e1, e2) ==
    <<NumMin(e1[1], e2[1]), NumMin(e1[2], e2[2]),
      NumMax(e1[3], e2[3]), NumMax(e1[4], e2[4])>>

isEmpty(e) == NumLess(e[3], e[1]) \/ NumLess(e[4], e[2])

RECURSIVE extentOfCoords(_)
extentOfCoords(cs) ==
    IF cs = <<>> THEN createEmpty
    ELSE extend(<<cs[1][1], cs[1][2], cs[1][1], cs[1][2]>>,
                extentOfCoords(Tail(cs)))

\* geometry.getExtent(): the bounding box of the coordinates; the empty
\* extent for a line or polygon without coordinates.
getExtent(geometry) == extentOfCoords(geometry.coords)

\* feature.getGeometry() of a feature read from "geometry": null.
NoGeometry == [type |-> "", coords |-> <<>>]

\* The geometries of the main layer's features.  mainLayer is a JavaScript
\* object, so a coordinate may be any number, Infinity included.
LayerGeometries ==
    {[type |-> "Point", coords |-> <<<<Num(1), Num(2)>>>>],
     [type |-> "LineString", coords |-> <<<<Num(0), Num(0)>>, <<Num(2), Num(1)>>>>],
     [type |-> "LineString", coords |-> <<<<Num(0), Num(0)>>, <<Infinity, Num(1)>>>>],
     [type |-> "Polygon",
      coords |-> <<<<Num(0), Num(0)>>, <<Num(1), Num(0)>>, <<Num(1), Num(1)>>,
                   <<Num(0), Num(0)>>>>],
     [type |-> "Polygon", coords |-> <<>>],
     [type |-> "MultiPoint", coords |-> <<<<Num(3), Num(3)>>>>],
     NoGeometry}

\* Values of properties[entityIdColumn] in the layer, and the values the
\* selectedRowIndex prop takes ("undefined": the prop is not set).
FeatureIds == {"001", "002"}
IndexArgs == {"001", "002", "999", "undefined"}

FeatureCollections ==
    UNION {[1..n -> [id : FeatureIds, geometry : LayerGeometries]] :
               n \in 0..MaxFeatures}

ANIMATION_DURATION == 1000

\* ------------------------------------------------------ LayerManager
\* The selection part of the state, as one value the operations transform.
sel ==
    [features |-> features,
     featureStyle |-> featureStyle,
     viewCalls |-> <<>>,
     warnings |-> <<>>]

highlightFeature_HighlightsAll(f, featureId) ==
    [f EXCEPT !.featureStyle =
        [i \in 1..Len(f.features) |->
            IF \E j \in 1..Len(f.features) : f.features[j].id = featureId
            THEN "highlight" ELSE "undefined"]]

highlightFeature_NoReset(f, featureId) ==
    [f EXCEPT !.featureStyle =
        [i \in 1..Len(f.features) |->
            IF f.features[i].id = featureId THEN "highlight" ELSE @[i]]]

\* source.forEachFeature: the selected features get createHighlightStyle(),
\* every other feature setStyle(undefined).
highlightFeature(f, featureId) ==
    [f EXCEPT !.featureStyle =
        [i \in 1..Len(f.features) |->
            IF f.features[i].id = featureId THEN "highlight" ELSE "undefined"]]

RECURSIVE sourceExtentFrom(_, _)
sourceExtentFrom(fs, i) ==
    IF i > Len(fs) THEN createEmpty
    ELSE IF fs[i].geometry = NoGeometry THEN sourceExtentFrom(fs, i + 1)
    ELSE extend(getExtent(fs[i].geometry), sourceExtentFrom(fs, i + 1))

\* source.getExtent(): the extent of the features that have a geometry.
sourceExtent(fs) == sourceExtentFrom(fs, 1)

fitCall(extent, duration, padding, maxZoom) ==
    [method |-> "fit", extent |-> extent, center |-> <<>>, zoom |-> NULL,
     duration |-> duration, padding |-> padding, maxZoom |-> maxZoom]

animateCall(center, zoom, duration) ==
    [method |-> "animate", extent |-> <<>>, center |-> center, zoom |-> zoom,
     duration |-> duration, padding |-> NULL, maxZoom |-> NULL]

fitToLayerExtent_Unchecked(f) ==
    [f EXCEPT !.viewCalls = Append(@, fitCall(sourceExtent(f.features), 1000, 20, NULL))]

fitToLayerExtent(f) ==
    LET extent == sourceExtent(f.features)
    IN  IF \A k \in 1..4 : isFinite(extent[k])
        THEN [f EXCEPT !.viewCalls = Append(@, fitCall(extent, 1000, 20, NULL))]
        ELSE f

\* ------------------------------------------- selected-feature effect
\* The view call the fly-to makes for a geometry: the switch of
\* MapComponent.jsx and ImprovedMapComponent.tsx, the if/else of
\* MapComponent.tsx.
flyToCall(comp, geometry) ==
    LET extent == getExtent(geometry)
        center == <<extent[1], extent[2]>>
    IN  IF comp = "MapComponent.tsx"
        THEN IF geometry.type = "Point"
             THEN animateCall(center, 17, ANIMATION_DURATION)
             ELSE fitCall(extent, ANIMATION_DURATION, 50, 16)
        ELSE CASE geometry.type = "Point" ->
                    animateCall(center, 17, ANIMATION_DURATION)
               [] geometry.type \in {"LineString", "MultiLineString"} ->
                    fitCall(extent, ANIMATION_DURATION, 50, 14)
               [] geometry.type \in {"Polygon", "MultiPolygon"} ->
                    fitCall(extent, ANIMATION_DURATION, 50, 16)
               [] OTHER ->
                    fitCall(extent, ANIMATION_DURATION, 50, NULL)

\* The forEachFeature loop of the fly-to from feature i on.  The callback's
\* "return false" does not end forEachFeature (only a truthy value does), so
\* every matching feature is visited.  view.fit rejects an empty extent with
\* an exception, which ends the loop.
RECURSIVE flyToFrom(_, _, _, _)
flyToFrom(comp, f, featureId, acc) ==
    LET i == acc.i
    IN  IF i > Len(f.features) \/ acc.threw THEN acc
        ELSE IF f.features[i].id # featureId
        THEN flyToFrom(comp, f, featureId, [acc EXCEPT !.i = i + 1])
        ELSE IF f.features[i].geometry = NoGeometry
        THEN flyToFrom(comp, f, featureId,
                       [acc EXCEPT !.i = i + 1, !.found = TRUE])
        ELSE LET call == flyToCall(comp, f.features[i].geometry)
             IN  flyToFrom(comp, f, featureId,
                    [acc EXCEPT !.i = i + 1, !.found = TRUE,
                                !.calls = Append(@, call),
                                !.threw = (call.method = "fit"
                                           /\ isEmpty(call.extent))])

IsFalsy(v) == v \in {"undefined", ""}

selectedFeatureEffect(comp, layer, f, index) ==
    IF layer = NULL \/ IsFalsy(index) THEN f
    ELSE LET f1 == highlightFeature(f, index)
             fly == flyToFrom(comp, f1, index,
                              [i |-> 1, found |-> FALSE, threw |-> FALSE,
                               calls |-> <<>>])
         IN  [f1 EXCEPT
                !.viewCalls = fly.calls,
                !.warnings =
                    IF fly.threw
                    THEN <<"Failed to handle selected feature">>
                    ELSE IF ~fly.found /\ comp # "MapComponent.tsx"
                    THEN <<"Feature not found">>
                    ELSE <<>>]

CommitSel(f) ==
    /\ featureStyle' = f.featureStyle
    /\ viewCalls' = f.viewCalls
    /\ warnings' = f.warnings
    /\ UNCHANGED <<features, component, mainVectorLayer>>

\* The main-layer effect has run (or there is no mainLayer prop): the layer
\* holds the features read from the GeoJSON, none with a style of its own.
InitSelection ==
    /\ InitDrawing
    /\ IdleRest
    /\ IdleStyle
    /\ IdleBase
    /\ drawingLayerOnMap = TRUE
    /\ onPolygonDraw = FALSE
    /\ map = 1
    /\ component \in {"MapComponent.jsx", "MapComponent.tsx"}
    /\ mainVectorLayer \in {NULL, 1}
    /\ features \in (IF mainVectorLayer = NULL THEN {<<>>} ELSE FeatureCollections)
    /\ featureStyle = [i \in 1..Len(features) |-> "undefined"]
    /\ selectedRowIndex = "undefined"
    /\ viewCalls = <<>>
    /\ warnings = <<>>

\* The selectedRowIndex prop is set and the selected-feature effect runs.
SelectedFeatureEffect ==
    \E index \in IndexArgs :
        /\ selectedRowIndex' = index
        /\ CommitSel(selectedFeatureEffect(component, mainVectorLayer, sel, index))
        /\ history' = Last2(history, [op |-> "select", arg |-> index])
        /\ UNCHANGED <<drawInteraction, modifyInteraction, snapInteraction,
                       drawingSource, nextId, interactions, drawingLayerOnMap,
                       map, currentDrawingMode, onPolygonDraw, mapCalls,
                       onDrawEndCalls, onPolygonDrawCalls, styleVars, baseVars, restVars>>

\* The fit-to-layer control (and the deferred auto-fit after load).
HandleFitToLayer ==
    /\ IF mainVectorLayer # NULL /\ map # NULL
       THEN CommitSel(fitToLayerExtent(sel))
       ELSE CommitSel(sel)
    /\ history' = Last2(history, [op |-> "fitToLayer", arg |-> ""])
    /\ UNCHANGED <<drawInteraction, modifyInteraction, snapInteraction,
                   drawingSource, nextId, interactions, drawingLayerOnMap,
                   map, currentDrawingMode, onPolygonDraw, mapCalls,
                   onDrawEndCalls, onPolygonDrawCalls, selectedRowIndex,
                   styleVars, baseVars, restVars>>

NextSelection == SelectedFeatureEffect \/ HandleFitToLayer

SpecSelection == InitSelection /\ [][NextSelection]_vars

\* ------------------------------------------------------------- styling
\* A color string is the sequence of its characters; an opacity is counted
\* in tenths (2 is 0.2, 10 is 1).
Chars7(c1, c2, c3, c4, c5, c6) == <<"#", c1, c2, c3, c4, c5, c6>>

DEFAULT_STYLES ==
    [FILL_COLOR |-> Chars7("3", "3", "8", "8", "f", "f"),
     STROKE_COLOR |-> Chars7("3", "3", "8", "8", "f", "f"),
     STROKE_WIDTH |-> 2,
     FILL_OPACITY |-> 2,
     STROKE_OPACITY |-> 10,
     SELECTED_FILL_COLOR |-> Chars7("f", "f", "3", "3", "8", "8"),
     SELECTED_STROKE_COLOR |-> Chars7("f", "f", "3", "3", "8", "8"),
     HIGHLIGHT_FILL_OPACITY |-> 4]

HexChars == <<"0", "1", "2", "3", "4", "5", "6", "7", "8", "9",
              "a", "b", "c", "d", "e", "f">>

IsHex(c) == \E k \in 1..16 : HexChars[k] = c
HexValue(c) == (CHOOSE k \in 1..16 : HexChars[k] = c) - 1

\* What parseInt and the template literal give for "not a number".
NaN == -1

\* hex.slice(a, b)
slice(s, a, b) ==
    LET e == IF b < Len(s) THEN b ELSE Len(s)
    IN  IF a >= e THEN <<>> ELSE SubSeq(s, a + 1, e)

\* parseInt(s, 16): the longest leading run of hex digits, NaN if there is none.
RECURSIVE parseInt16From(_, _)
parseInt16From(s, acc) ==
    IF s = <<>> \/ ~IsHex(Head(s)) THEN acc
    ELSE parseInt16From(Tail(s), 16 * acc + HexValue(Head(s)))

parseInt16(s) ==
    IF s = <<>> \/ ~IsHex(Head(s)) THEN NaN ELSE parseInt16From(s, 0)

\* The string `rgba(r, g, b, opacity)` as its four components.
hexToRgba(hex, opacity) ==
    [r |-> parseInt16(slice(hex, 1, 3)),
     g |-> parseInt16(slice(hex, 3, 5)),
     b |-> parseInt16(slice(hex, 5, 7)),
     a |-> opacity]

\* The StyleConfig createFeatureStyle starts from.
DefaultStyleConfig ==
    [fillColor |-> DEFAULT_STYLES.FILL_COLOR,
     fillOpacity |-> DEFAULT_STYLES.FILL_OPACITY,
     strokeColor |-> DEFAULT_STYLES.STROKE_COLOR,
     strokeWidth |-> DEFAULT_STYLES.STROKE_WIDTH,
     strokeOpacity |-> DEFAULT_STYLES.STROKE_OPACITY]

\* What the entityColor prop does for a feature: it throws, or it returns a
\* StyleConfig: a complete one with valid colors and opacities in [0,1]
\* (stroke opacity 0), or one whose colors are no six-digit hex strings
\* ('#fff' is too short, '#gg0000' has non-hex characters), or one whose
\* fill opacity is 1.5 and which has no stroke settings.
EntityColorOutcomes == {"throws", "custom", "invalidColor", "outOfRange"}

entityColorResult(outcome, defaultColor) ==
    IF outcome = "custom"
    THEN [fillColor |-> Chars7("f", "f", "0", "0", "0", "0"),
          fillOpacity |-> 5,
          strokeColor |-> Chars7("0", "0", "f", "f", "0", "0"),
          strokeWidth |-> 4,
          strokeOpacity |-> 0]
    ELSE IF outcome = "invalidColor"
    THEN [fillColor |-> <<"#", "f", "f", "f">>,
          fillOpacity |-> 5,
          strokeColor |-> Chars7("g", "g", "0", "0", "0", "0"),
          strokeWidth |-> 4,
          strokeOpacity |-> 5]
    ELSE [fillColor |-> defaultColor,
          fillOpacity |-> 15,
          strokeColor |-> <<>>,
          strokeWidth |-> 0,
          strokeOpacity |-> 10]

NoEntityColor == [given |-> FALSE, result |-> <<>>]

EntityColors ==
    {NoEntityColor}
        \cup {[given |-> TRUE, result |-> f] : f \in [FeatureIds -> EntityColorOutcomes]}

\* The styleFunction the main-layer effect builds around entityColor:
\* MapComponent.jsx and ImprovedMapComponent.tsx catch the exception, warn
\* and return the default colours; MapComponent.tsx calls entityColor bare.
styleFunction(comp, ec, feature, defaultColor) ==
    LET outcome == ec.result[feature.id]
    IN  IF outcome # "throws"
        THEN [threw |-> FALSE, warned |-> 0,
              config |-> entityColorResult(outcome, defaultColor)]
        ELSE IF comp = "MapComponent.tsx"
        THEN [threw |-> TRUE, warned |-> 0, config |-> DefaultStyleConfig]
        ELSE [threw |-> FALSE, warned |-> 1,
              config |-> [fillColor |-> defaultColor,
                          fillOpacity |-> 2,
                          strokeColor |-> defaultColor,
                          strokeWidth |-> 2,
                          strokeOpacity |-> 10]]

\* createFeatureStyle with the line case falling into the polygon case.
styleOfConfig_LineGetsFill(geometry, styleConfig) ==
    LET fill == hexToRgba(styleConfig.fillColor, styleConfig.fillOpacity)
        stroke ==
            [color |-> hexToRgba(IF styleConfig.strokeColor # <<>>
                                 THEN styleConfig.strokeColor
                                 ELSE styleConfig.fillColor,
                                 IF styleConfig.strokeOpacity # 0
                                 THEN styleConfig.strokeOpacity ELSE 10),
             width |-> IF styleConfig.strokeWidth # 0
                       THEN styleConfig.strokeWidth ELSE 2]
    IN  CASE geometry.type = "Point" ->
                [image |-> [radius |-> 6, fill |-> fill, stroke |-> stroke]]
          [] OTHER ->
                [fill |-> fill, stroke |-> stroke]

\* The switch on the geometry type in createFeatureStyle.
styleOfConfig(geometry, styleConfig) ==
    LET fill == hexToRgba(styleConfig.fillColor, styleConfig.fillOpacity)
        stroke ==
            [color |-> hexToRgba(IF styleConfig.strokeColor # <<>>
                                 THEN styleConfig.strokeColor
                                 ELSE styleConfig.fillColor,
                                 IF styleConfig.strokeOpacity # 0
                                 THEN styleConfig.strokeOpacity ELSE 10),
             width |-> IF styleConfig.strokeWidth # 0
                       THEN styleConfig.strokeWidth ELSE 2]
    IN  CASE geometry.type = "Point" ->
                [image |-> [radius |-> 6, fill |-> fill, stroke |-> stroke]]
          [] geometry.type \in {"LineString", "MultiLineString"} ->
                [stroke |-> stroke]
          [] OTHER ->
                [fill |-> fill, stroke |-> stroke]

createFeatureStyle(comp, ec, feature) ==
    LET defaultColor == DEFAULT_STYLES.FILL_COLOR
        call == IF ec.given
                THEN styleFunction(comp, ec, feature, defaultColor)
                ELSE [threw |-> FALSE, warned |-> 0, config |-> DefaultStyleConfig]
    IN  [threw |-> call.threw, warned |-> call.warned,
         style |-> styleOfConfig(feature.geometry, call.config)]

createHighlightStyle ==
    LET fill == hexToRgba(DEFAULT_STYLES.SELECTED_FILL_COLOR,
                          DEFAULT_STYLES.HIGHLIGHT_FILL_OPACITY)
        stroke == [color |-> [hex |-> DEFAULT_STYLES.SELECTED_STROKE_COLOR],
                   width |-> DEFAULT_STYLES.STROKE_WIDTH + 1]
    IN  [fill |-> fill, stroke |-> stroke,
         image |-> [radius |-> 8, fill |-> fill, stroke |-> stroke]]

\* One pass of the renderer over the layer's features: a feature with a style
\* of its own uses it, every other one goes through the layer's style
\* function.  An exception leaving the style function ends the pass.
RECURSIVE stylePassFrom(_, _, _, _, _)
stylePassFrom(comp, ec, fs, fstyle, acc) ==
    LET i == Len(acc.styles) + 1
    IN  IF i > Len(fs) \/ acc.error THEN acc
        ELSE IF fstyle[i] = "highlight"
        THEN stylePassFrom(comp, ec, fs, fstyle,
                [acc EXCEPT !.styles = Append(@, createHighlightStyle)])
        ELSE LET r == createFeatureStyle(comp, ec, fs[i])
             IN  IF r.threw
                 THEN [acc EXCEPT !.error = TRUE]
                 ELSE stylePassFrom(comp, ec, fs, fstyle,
                        [acc EXCEPT !.styles = Append(@, r.style),
                                    !.warned = @ + r.warned])

stylePass(comp, ec, fs, fstyle) ==
    stylePassFrom(comp, ec, fs, fstyle,
                  [done |-> TRUE, styles |-> <<>>, error |-> FALSE, warned |-> 0])

\* The feature collections of the styling runs: one geometry per branch of
\* the switch in createFeatureStyle.
StyledCollections ==
    UNION {[1..n -> [id : FeatureIds,
                     geometry : {g \in LayerGeometries :
                                    /\ g.type \in {"Point", "LineString", "Polygon", ""}
                                    /\ \A c \in 1..Len(g.coords) : isFinite(g.coords[c][1])
                                    /\ g.type = "Polygon" => g.coords # <<>>}]] :
               n \in 0..MaxFeatures}

\* The main-layer effect and then the selected-feature effect have run once
\* with the props of the mount.
InitStyle ==
    /\ InitDrawing
    /\ IdleRest
    /\ IdleBase
    /\ drawingLayerOnMap = TRUE
    /\ onPolygonDraw = FALSE
    /\ map = 1
    /\ component \in {"MapComponent.jsx", "ImprovedMapComponent.tsx", "MapComponent.tsx"}
    /\ mainVectorLayer = 1
    /\ features \in StyledCollections
    /\ selectedRowIndex \in {"undefined", "001"}
    /\ LET f == selectedFeatureEffect(component, mainVectorLayer,
                    [features |-> features,
                     featureStyle |-> [i \in 1..Len(features) |-> "undefined"],
                     viewCalls |-> <<>>, warnings |-> <<>>],
                    selectedRowIndex)
       IN  /\ featureStyle = f.featureStyle
           /\ viewCalls = f.viewCalls
           /\ warnings = f.warnings
    /\ entityColor \in EntityColors
    /\ renderPass = [done |-> FALSE, styles |-> <<>>, error |-> FALSE, warned |-> 0]

\* The entityColor prop changes: the main-layer effect replaces the layer by
\* one over the same GeoJSON (layerCenter is given, so no auto-fit is
\* scheduled), and the selected-feature effect runs for the new layer.
MainLayerEffect ==
    \E ec \in EntityColors :
        /\ ec # entityColor
        /\ entityColor' = ec
        /\ renderPass' = [done |-> FALSE, styles |-> <<>>, error |-> FALSE, warned |-> 0]
        /\ CommitSel(selectedFeatureEffect(component, mainVectorLayer,
                [sel EXCEPT !.featureStyle =
                    [i \in 1..Len(features) |-> "undefined"]],
                selectedRowIndex))
        /\ UNCHANGED <<drawVars, selectedRowIndex, baseVars, restVars>>

\* The renderer styles the features of the main layer.
StylePass ==
    /\ mainVectorLayer # NULL
    /\ renderPass' = stylePass(component, entityColor, features, featureStyle)
    /\ UNCHANGED <<drawVars, selVars, entityColor, baseVars, restVars>>

NextStyle == MainLayerEffect \/ StylePass

SpecStyle == InitStyle /\ [][NextStyle]_vars

\* ----------------- base layers (ImprovedMapComponent.tsx, MapComponent.jsx)
\* A URL is the sequence of its parts, a placeholder being one part.
\* The WMTS links of the catalog: a template with the four placeholders and
\* one that has no {TileRow}.
TemplateUrl ==
    <<"https://server/wmts/", "{TileMatrixSet}", "/", "{TileMatrix}", "/",
      "{TileCol}", "/", "{TileRow}", ".jpeg">>

UrlWithoutTileRow ==
    <<"https://server/wmts/", "{TileMatrixSet}", "/", "{TileMatrix}", "/",
      "{TileCol}", ".jpeg">>

\* url.includes(param)
includes(url, param) == \E i \in 1..Len(url) : url[i] = param

\* url.replace(param, value): the first occurrence only.
replace(url, param, value) ==
    IF includes(url, param)
    THEN LET i == CHOOSE n \in 1..Len(url) :
                    url[n] = param /\ \A m \in 1..(n - 1) : url[m] # param
         IN  [url EXCEPT ![i] = value]
    ELSE url

\* WMTSConfigService.formatWMTSUrl
formatWMTSUrl(templateUrl, token) ==
    replace(replace(replace(replace(templateUrl,
        "{TileMatrixSet}", "WorldCRS84"), "{TileMatrix}", "{z}"),
        "{TileCol}", "{x}"), "{TileRow}", "{y}")
        \o <<IF includes(templateUrl, "?") THEN "&" ELSE "?", "token=", token>>

\* WMTSService.validateWMTSUrl
validateWMTSUrl(url) ==
    \A param \in {"{TileMatrixSet}", "{TileMatrix}", "{TileCol}", "{TileRow}"} :
        includes(url, param)

\* What WMTSConfigService.getConfiguredBaseLayers resolves to: the configured
\* layers whose catalog query gave a WMTS link, in configuration order, each
\* with the url of that link.  It catches every failure per layer, so it
\* never rejects.
ConfiguredResults ==
    LET orthophoto == [id |-> "orthophoto-best", url |-> TemplateUrl]
        bluemarble == [id |-> "bluemarble", url |-> TemplateUrl]
        bluemarbleNoRow == [id |-> "bluemarble", url |-> UrlWithoutTileRow]
    IN  {<<>>, <<orthophoto>>, <<bluemarble>>, <<orthophoto, bluemarble>>,
         <<bluemarbleNoRow>>, <<orthophoto, bluemarbleNoRow>>}

\* ------------------------------------------------ WMTSService tile grid
TILE_SIZE == 256
MAX_ZOOM == 21

\* getProjection('EPSG:4326').getExtent()
projectionExtent == <<-180, -90, 180, 90>>

RECURSIVE gcd(_, _)
gcd(a, b) == IF b = 0 THEN a ELSE gcd(b, a % b)

\* The number a / b for integers a >= 0 and b > 0, as the fraction in lowest
\* terms (the divisions of createTileGrid are by powers of two, so the
\* floating-point quotient is this number exactly).
Quotient(a, b) == LET g == gcd(a, b) IN [num |-> a \div g, den |-> b \div g]

\* A number written as a decimal literal: mant * 10^exp.
Decimal(mant, exp) == [mant |-> mant, exp |-> exp]

\* a > b for two numbers of the same form.
Greater(a, b) ==
    IF "num" \in DOMAIN a
    THEN a.num * b.den > b.num * a.den
    ELSE LET e == IF a.exp < b.exp THEN a.exp ELSE b.exp
         IN  a.mant * 10^(a.exp - e) > b.mant * 10^(b.exp - e)

Math_max(a, b) == IF a >= b THEN a ELSE b

\* createTileGrid with the resolutions filled from the last level down.
createTileGrid_Reversed ==
    LET size == Math_max(projectionExtent[3] - projectionExtent[1],
                         projectionExtent[4] - projectionExtent[2])
    IN  [origin |-> <<-180, 90>>,
         resolutions |-> [k \in 1..MAX_ZOOM |->
                            Quotient(size, TILE_SIZE * 2^(MAX_ZOOM - k))],
         matrixIds |-> [k \in 1..MAX_ZOOM |-> ToString(k - 1)]]

\* createTileGrid taking the smaller side of the extent for the span.
createTileGrid_SmallerSide ==
    LET width == projectionExtent[3] - projectionExtent[1]
        height == projectionExtent[4] - projectionExtent[2]
        size == IF width <= height THEN width ELSE height
    IN  [origin |-> <<-180, 90>>,
         resolutions |-> [k \in 1..MAX_ZOOM |->
                            Quotient(size, TILE_SIZE * 2^(k - 1))],
         matrixIds |-> [k \in 1..MAX_ZOOM |-> ToString(k - 1)]]

\* WMTSService.createTileGrid: the options handed to WMTSTileGrid.  Zoom
\* level z of the JavaScript arrays is element z + 1 here.
createTileGrid ==
    LET size == Math_max(projectionExtent[3] - projectionExtent[1],
                         projectionExtent[4] - projectionExtent[2])
    IN  [origin |-> <<-180, 90>>,
         resolutions |-> [k \in 1..MAX_ZOOM |->
                            Quotient(size, TILE_SIZE * 2^(k - 1))],
         matrixIds |-> [k \in 1..MAX_ZOOM |-> ToString(k - 1)]]

\* WMTS_CONFIG of AdvancedOpenLayersMap.
WMTS_CONFIG ==
    [PROJECTION |-> "EPSG:4326",
     TILE_SIZE |-> 256,
     MATRIX_SET |-> "WorldCRS84",
     RESOLUTIONS |->
        <<Decimal(703125, -6), Decimal(3515625, -7), Decimal(17578125, -8),
          Decimal(87890625, -9), Decimal(43945312, -9), Decimal(21972656, -9),
          Decimal(10986328, -9), Decimal(5493164, -9), Decimal(2746582, -9),
          Decimal(1373291, -9), Decimal(686645, -9), Decimal(343322, -9),
          Decimal(858306, -10), Decimal(429153, -10), Decimal(214576, -10),
          Decimal(107288, -10), Decimal(536441, -11), Decimal(268220, -11),
          Decimal(134110, -11), Decimal(670552, -12), Decimal(335276, -12)>>]

\* The tile grid WMTSService.createWMTSSource of AdvancedOpenLayersMap builds.
createWMTSSource_tileGrid ==
    LET resolutions == WMTS_CONFIG.RESOLUTIONS
    IN  [origin |-> <<projectionExtent[1], projectionExtent[4]>>,
         resolutions |-> resolutions,
         matrixIds |-> [i \in 1..Len(resolutions) |-> ToString(i - 1)]]

\* tileGrid: undefined
undefinedTileGrid == [origin |-> <<>>, resolutions |-> <<>>, matrixIds |-> <<>>]

\* The tile layer object WMTSService.createWMTSLayer makes for a
\* configuration in run r: the id it is kept under, and the url and the tile
\* grid of its source.
createWMTSLayer(r, config) ==
    LET tileGrid == createTileGrid
        formattedUrl ==
            replace(replace(replace(replace(config.url,
                "{TileMatrixSet}", "WorldCRS84"), "{TileMatrix}", "{z}"),
                "{TileCol}", "{x}"), "{TileRow}", "{y}")
    IN  [run |-> r, id |-> config.id, url |-> formattedUrl, tileGrid |-> tileGrid]

base ==
    [runs |-> runs,
     mapLayers |-> mapLayers,
     visibleLayers |-> visibleLayers,
     baseLayers |-> baseLayers,
     baseLayerConfigs |-> baseLayerConfigs,
     selectedBaseLayer |-> selectedBaseLayer,
     layerError |-> layerError,
     isLoadingLayers |-> isLoadingLayers,
     layerArray |-> layerArray]

\* initializeBaseLayers up to its await, for the map m the effect captured.
initializeBaseLayers(b, m) ==
    [b EXCEPT !.runs = Append(@, [map |-> m, pc |-> "awaiting"]),
              !.isLoadingLayers = TRUE,
              !.layerError = "null"]

\* The catch block of initializeBaseLayers that never leaves the loading
\* state: the finally block is missing.
catchInitializeBaseLayers_StillLoading(b, r, message) ==
    LET m == b.runs[r].map
        fallbackLayer ==
            [run |-> r, id |-> "fallback",
             url |-> <<"https://{a-c}.tile.openstreetmap.org/{z}/{x}/{y}.png">>,
             tileGrid |-> undefinedTileGrid]
    IN  [b EXCEPT
            !.runs[r].pc = "done",
            !.layerError = message,
            !.mapLayers = @ \cup {[map |-> m, layer |-> fallbackLayer]},
            !.visibleLayers = @ \cup {fallbackLayer},
            !.baseLayers = {fallbackLayer},
            !.selectedBaseLayer = "fallback"]

\* initializeBaseLayers from its await on when the awaited promise rejects
\* with an Error carrying message: the catch block, then the finally block.
catchInitializeBaseLayers(b, r, message) ==
    LET m == b.runs[r].map
        fallbackLayer ==
            [run |-> r, id |-> "fallback",
             url |-> <<"https://{a-c}.tile.openstreetmap.org/{z}/{x}/{y}.png">>,
             tileGrid |-> undefinedTileGrid]
    IN  [b EXCEPT
            !.runs[r].pc = "done",
            !.layerError = message,
            !.mapLayers = @ \cup {[map |-> m, layer |-> fallbackLayer]},
            !.visibleLayers = @ \cup {fallbackLayer},
            !.baseLayers = {fallbackLayer},
            !.selectedBaseLayer = "fallback",
            !.isLoadingLayers = FALSE]

\* initializeBaseLayers with a fallback layer that is constructed but never
\* added to the map.
resumeInitializeBaseLayers_FallbackNotAdded(b, r, configuredLayers) ==
    LET m == b.runs[r].map
    IN  IF Len(configuredLayers) = 0
        THEN LET fallbackLayer ==
                    [run |-> r, id |-> "fallback",
                     url |-> <<"https://{a-c}.tile.openstreetmap.org/{z}/{x}/{y}.png">>,
                     tileGrid |-> undefinedTileGrid]
             IN  [b EXCEPT
                    !.runs[r].pc = "done",
                    !.layerError = "No base layers configured on server",
                    !.visibleLayers = @ \cup {fallbackLayer},
                    !.baseLayers = {fallbackLayer},
                    !.selectedBaseLayer = "fallback",
                    !.isLoadingLayers = FALSE]
        ELSE LET layerOf(config) ==
                     createWMTSLayer(r,
                        [id |-> config.id,
                         url |-> formatWMTSUrl(config.url, "YOUR_TOKEN")])
                 layers == {layerOf(configuredLayers[k]) :
                                k \in 1..Len(configuredLayers)}
                 firstLayerId == configuredLayers[1].id
             IN  [b EXCEPT
                    !.runs[r].pc = "done",
                    !.baseLayerConfigs = configuredLayers,
                    !.mapLayers = @ \cup {[map |-> m, layer |-> l] : l \in layers},
                    !.visibleLayers = @ \cup {l \in layers : l.id = firstLayerId},
                    !.baseLayers = layers,
                    !.selectedBaseLayer = firstLayerId,
                    !.isLoadingLayers = FALSE]

\* initializeBaseLayers of run r from the await on, with the awaited value.
resumeInitializeBaseLayers(b, r, configuredLayers) ==
    LET m == b.runs[r].map
    IN  IF Len(configuredLayers) = 0
        THEN LET fallbackLayer ==
                    [run |-> r, id |-> "fallback",
                     url |-> <<"https://{a-c}.tile.openstreetmap.org/{z}/{x}/{y}.png">>,
                     tileGrid |-> undefinedTileGrid]
             IN  [b EXCEPT
                    !.runs[r].pc = "done",
                    !.layerError = "No base layers configured on server",
                    !.mapLayers = @ \cup {[map |-> m, layer |-> fallbackLayer]},
                    !.visibleLayers = @ \cup {fallbackLayer},
                    !.baseLayers = {fallbackLayer},
                    !.selectedBaseLayer = "fallback",
                    !.isLoadingLayers = FALSE]
        ELSE LET layerOf(config) ==
                     createWMTSLayer(r,
                        [id |-> config.id,
                         url |-> formatWMTSUrl(config.url, "YOUR_TOKEN")])
                 layers == {layerOf(configuredLayers[k]) :
                                k \in 1..Len(configuredLayers)}
                 firstLayerId == configuredLayers[1].id
             IN  [b EXCEPT
                    !.runs[r].pc = "done",
                    !.baseLayerConfigs = configuredLayers,
                    !.mapLayers = @ \cup {[map |-> m, layer |-> l] : l \in layers},
                    !.visibleLayers = @ \cup {l \in layers : l.id = firstLayerId},
                    !.baseLayers = layers,
                    !.selectedBaseLayer = firstLayerId,
                    !.isLoadingLayers = FALSE]

\* WMTSService.createTileLayer of AdvancedOpenLayersMap, for the n-th layer
\* constructed.
WMTSService_createTileLayer(n, layerConfig) ==
    [run |-> n,
     id |-> layerConfig.layerName,
     url |-> layerConfig.baseUrl
                \o <<"/", "{TileMatrix}", "/", "{TileCol}", "/", "{TileRow}",
                     ".jpeg", "?", "token=", "your-token-here">>,
     tileGrid |-> createWMTSSource_tileGrid]

\* A vector layer object of AdvancedOpenLayersMap: the main layer and the
\* layer of DrawService.
VectorLayer(n, id) ==
    [run |-> n, id |-> id, url |-> <<>>, tileGrid |-> undefinedTileGrid]

\* The base-layer effect of AdvancedOpenLayersMap: every TileLayer of the
\* map except the last element of the layer array is removed, then the
\* layer for selectedBaseLayer is added with visible: true.
baseLayerEffect(b, m) ==
    LET layers == b.layerArray
        kept(l) == ~(l.class = "TileLayer" /\ l # layers[Len(layers)])
        layerConfig ==
            [baseUrl |-> <<"https://your-wmts-server.com/wmts/", "{TileMatrixSet}">>,
             layerName |-> b.selectedBaseLayer,
             visible |-> TRUE]
        baseLayer == WMTSService_createTileLayer(Len(b.runs) + 1, layerConfig)
    IN  [b EXCEPT
            !.runs = Append(@, [map |-> m, pc |-> "done"]),
            !.layerArray =
                Append(SelectSeq(layers, kept),
                       [class |-> "TileLayer", layer |-> baseLayer]),
            !.visibleLayers = @ \cup {baseLayer}]

\* The main-layer effect of AdvancedOpenLayersMap: every VectorLayer for
\* which get('isDrawLayer') is falsy is removed (no layer has that
\* property), then the new vector layer is added.
mainLayerEffect(b, m) ==
    LET layers == b.layerArray
        kept(l) == l.class # "VectorLayer"
        vectorLayer == VectorLayer(Len(b.runs) + 1, "layer")
    IN  [b EXCEPT
            !.runs = Append(@, [map |-> m, pc |-> "done"]),
            !.layerArray =
                Append(SelectSeq(layers, kept),
                       [class |-> "VectorLayer", layer |-> vectorLayer])]

\* The effects of AdvancedOpenLayersMap that depend on map, run for a map m
\* that has no layers yet: the draw-service effect (only with an
\* onPolygonDraw prop), the base-layer effect and the main-layer effect
\* (only with a mainLayer prop), in this order.
mapEffects(b, m, withDraw, withMain) ==
    LET drawn == [b EXCEPT
                    !.layerArray =
                        IF withDraw
                        THEN <<[class |-> "VectorLayer",
                                layer |-> VectorLayer(0, "draw")]>>
                        ELSE <<>>]
        based == baseLayerEffect(drawn, m)
    IN  IF withMain THEN mainLayerEffect(based, m) ELSE based

\* layerConfigs of MapComponent.jsx, in the order of Object.entries.
layerConfigs ==
    <<[id |-> "osm",
       url |-> <<"https://your-server.com/wmts/osm/", "{TileMatrixSet}", "/",
                 "{TileMatrix}", "/", "{TileCol}", "/", "{TileRow}", ".jpeg">>],
      [id |-> "satellite",
       url |-> <<"https://your-server.com/wmts/satellite/", "{TileMatrixSet}", "/",
                 "{TileMatrix}", "/", "{TileCol}", "/", "{TileRow}", ".jpeg">>],
      [id |-> "roads",
       url |-> <<"https://your-server.com/wmts/roads/", "{TileMatrixSet}", "/",
                 "{TileMatrix}", "/", "{TileCol}", "/", "{TileRow}", ".jpeg">>]>>

\* initializeBaseLayers of MapComponent.jsx for the map m and the
\* selectedBaseLayer of the render the effect belongs to.  It awaits
\* nothing, so it runs to its end inside the effect.
MapComponent_initializeBaseLayers(b, m) ==
    LET r == Len(b.runs) + 1
        layers == {createWMTSLayer(r, layerConfigs[k]) : k \in 1..Len(layerConfigs)}
    IN  [b EXCEPT
            !.runs = Append(@, [map |-> m, pc |-> "done"]),
            !.layerError = "null",
            !.mapLayers = @ \cup {[map |-> m, layer |-> l] : l \in layers},
            !.baseLayers = layers,
            !.visibleLayers = @ \cup {l \in layers : l.id = b.selectedBaseLayer},
            !.isLoadingLayers = FALSE]

handleBaseLayerChange(b, layerId) ==
    LET hidden == b.visibleLayers \ b.baseLayers
        target == {l \in b.baseLayers : l.id = layerId}
    IN  IF target # {}
        THEN [b EXCEPT !.visibleLayers = hidden \cup target,
                       !.selectedBaseLayer = layerId]
        ELSE [b EXCEPT !.visibleLayers = hidden]

CommitBase(b) ==
    /\ runs' = b.runs
    /\ mapLayers' = b.mapLayers
    /\ visibleLayers' = b.visibleLayers
    /\ baseLayers' = b.baseLayers
    /\ baseLayerConfigs' = b.baseLayerConfigs
    /\ selectedBaseLayer' = b.selectedBaseLayer
    /\ layerError' = b.layerError
    /\ isLoadingLayers' = b.isLoadingLayers
    /\ layerArray' = b.layerArray

\* The base-layer state of a component whose map is ready and whose effects
\* have run for the first time.  In ImprovedMapComponent.tsx the
\* initialization is at its await, in MapComponent.jsx
\* (useState('satellite')) it is over.  In AdvancedOpenLayersMap
\* (useState('satellite')) the draw-service effect, the base-layer effect
\* and the main-layer effect have run in this order, the first only with an
\* onPolygonDraw prop and the last only with a mainLayer prop.
MountedBase(comp, withDraw, withMain) ==
    LET idle == [runs |-> <<>>, mapLayers |-> {}, visibleLayers |-> {},
                 baseLayers |-> {}, baseLayerConfigs |-> <<>>,
                 selectedBaseLayer |-> "", layerError |-> "null",
                 isLoadingLayers |-> TRUE, layerArray |-> <<>>]
    IN  CASE comp = "MapComponent.jsx" ->
                MapComponent_initializeBaseLayers(
                    [idle EXCEPT !.selectedBaseLayer = "satellite"], 1)
          [] comp = "AdvancedOpenLayersMap" ->
                mapEffects([idle EXCEPT !.selectedBaseLayer = "satellite"], 1,
                           withDraw, withMain)
          [] OTHER ->
                [idle EXCEPT !.runs = <<[map |-> 1, pc |-> "awaiting"]>>]

\* The layer of DrawService is in the layer array.
DrawLayerIn(layers) ==
    \E i \in 1..Len(layers) : layers[i].layer.id = "draw"

InitBaseLayers ==
    /\ InitDrawing
    /\ IdleRest
    /\ IdleStyle
    /\ map = 1
    /\ component \in {"ImprovedMapComponent.tsx", "MapComponent.jsx",
                      "AdvancedOpenLayersMap"}
    /\ onPolygonDraw \in (IF component = "AdvancedOpenLayersMap"
                          THEN BOOLEAN ELSE {FALSE})
    /\ mainVectorLayer \in (IF component = "AdvancedOpenLayersMap"
                            THEN {NULL, 1} ELSE {NULL})
    /\ features = <<>>
    /\ featureStyle = <<>>
    /\ selectedRowIndex = "undefined"
    /\ viewCalls = <<>>
    /\ warnings = <<>>
    /\ LET b == MountedBase(component, onPolygonDraw, mainVectorLayer # NULL)
       IN  /\ runs = b.runs
           /\ mapLayers = b.mapLayers
           /\ visibleLayers = b.visibleLayers
           /\ baseLayers = b.baseLayers
           /\ baseLayerConfigs = b.baseLayerConfigs
           /\ selectedBaseLayer = b.selectedBaseLayer
           /\ layerError = b.layerError
           /\ isLoadingLayers = b.isLoadingLayers
           /\ layerArray = b.layerArray
           /\ drawingLayerOnMap = (IF component = "AdvancedOpenLayersMap"
                                   THEN DrawLayerIn(b.layerArray) ELSE TRUE)

\* useMapInitialization hands the component a new map instance (its element
\* id, center or zoom changed), so the effect on [isMapReady, map] runs again.
MapRecreated ==
    /\ component # "AdvancedOpenLayersMap"
    /\ Len(runs) < MaxRuns
    /\ map' = map + 1
    /\ IF component = "MapComponent.jsx"
       THEN CommitBase(MapComponent_initializeBaseLayers(base, map + 1))
       ELSE CommitBase(initializeBaseLayers(base, map + 1))
    /\ UNCHANGED <<drawInteraction, modifyInteraction, snapInteraction,
                   drawingSource, nextId, interactions, drawingLayerOnMap,
                   currentDrawingMode, onPolygonDraw, mapCalls, onDrawEndCalls,
                   onPolygonDrawCalls, history, selVars, styleVars, restVars>>

\* The promise run r awaits resolves to configuredLayers and the run
\* continues to its end.
SettlesWith(r, configuredLayers) ==
    /\ runs[r].pc = "awaiting"
    /\ CommitBase(resumeInitializeBaseLayers(base, r, configuredLayers))
    /\ UNCHANGED <<drawVars, selVars, styleVars, restVars>>

GetConfiguredBaseLayersSettles(r) ==
    \E configuredLayers \in ConfiguredResults : SettlesWith(r, configuredLayers)

\* The promise run r awaits rejects: with an Error, whose message becomes
\* layerError, or with a value that is no Error.
GetConfiguredBaseLayersRejects(r) ==
    /\ runs[r].pc = "awaiting"
    /\ \E message \in {"Failed to fetch", "Failed to load base layers"} :
           CommitBase(catchInitializeBaseLayers(base, r, message))
    /\ UNCHANGED <<drawVars, selVars, styleVars, restVars>>

\* A button of BaseLayerSelector is clicked: the selector lists the layers of
\* baseLayerConfigs.
HandleBaseLayerChange ==
    /\ component = "ImprovedMapComponent.tsx"
    /\ \E layerId \in {baseLayerConfigs[k].id : k \in 1..Len(baseLayerConfigs)} :
        /\ CommitBase(handleBaseLayerChange(base, layerId))
        /\ UNCHANGED <<drawVars, selVars, styleVars, restVars>>

\* A button of BaseLayerSelector is clicked in MapComponent.jsx, which lists
\* osm, satellite and roads.  selectedBaseLayer is a dependency of the
\* initialization effect there, so a changed selection runs
\* initializeBaseLayers again on the same map.
MapComponent_HandleBaseLayerChange ==
    /\ component = "MapComponent.jsx"
    /\ \E layerId \in {"osm", "satellite", "roads"} :
        LET b == handleBaseLayerChange(base, layerId)
        IN  /\ IF b.selectedBaseLayer # selectedBaseLayer
               THEN /\ Len(runs) < MaxRuns
                    /\ CommitBase(MapComponent_initializeBaseLayers(b, map))
               ELSE CommitBase(b)
            /\ UNCHANGED <<drawVars, selVars, styleVars, restVars>>

\* A radio button of the BaseLayerSelector of AdvancedOpenLayersMap is
\* chosen: setSelectedBaseLayer(key), and the base-layer effect runs for the
\* new selection.
SetSelectedBaseLayer ==
    /\ component = "AdvancedOpenLayersMap"
    /\ Len(runs) < MaxRuns
    /\ \E key \in {"satellite", "roads", "osm"} \ {selectedBaseLayer} :
           CommitBase(baseLayerEffect([base EXCEPT !.selectedBaseLayer = key], map))
    /\ UNCHANGED <<drawVars, selVars, styleVars, restVars>>

\* A dependency of the main-layer effect of AdvancedOpenLayersMap changes
\* (layerName, setSelectedEntity, ...) and the effect runs again.
MainLayerPropsChange ==
    /\ component = "AdvancedOpenLayersMap"
    /\ mainVectorLayer # NULL
    /\ Len(runs) < MaxRuns
    /\ CommitBase(mainLayerEffect(base, map))
    /\ drawingLayerOnMap' = FALSE
    /\ UNCHANGED <<drawInteraction, modifyInteraction, snapInteraction,
                   drawingSource, nextId, interactions, map,
                   currentDrawingMode, onPolygonDraw, mapCalls, onDrawEndCalls,
                   onPolygonDrawCalls, history, selVars, styleVars, restVars>>

NextBaseLayers ==
    \/ MapRecreated
    \/ \E r \in 1..Len(runs) : GetConfiguredBaseLayersSettles(r)
    \/ \E r \in 1..Len(runs) : GetConfiguredBaseLayersRejects(r)
    \/ HandleBaseLayerChange
    \/ MapComponent_HandleBaseLayerChange
    \/ SetSelectedBaseLayer
    \/ MainLayerPropsChange

SpecBaseLayers == InitBaseLayers /\ [][NextBaseLayers]_vars

\* The promise each run awaits eventually settles: it resolves or rejects.
Settled(r) ==
    /\ r \in 1..Len(runs)
    /\ \/ GetConfiguredBaseLayersSettles(r)
       \/ GetConfiguredBaseLayersRejects(r)

\* The components that keep an isLoadingLayers state, with the steps that
\* start, end or follow an initialization of the base layers.
InitLoading ==
    /\ InitBaseLayers
    /\ component \in {"ImprovedMapComponent.tsx", "MapComponent.jsx"}

\* The map is created again while fewer than MaxLoads initializations have
\* started.
MapRecreatedLoading ==
    /\ Len(runs) < MaxLoads
    /\ MapRecreated

NextLoading ==
    \/ MapRecreatedLoading
    \/ \E r \in 1..Len(runs) : GetConfiguredBaseLayersSettles(r)
    \/ \E r \in 1..Len(runs) : GetConfiguredBaseLayersRejects(r)
    \/ HandleBaseLayerChange
    \/ MapComponent_HandleBaseLayerChange

SpecLoading == InitLoading /\ [][NextLoading]_vars

FairSpecLoading ==
    SpecLoading /\ \A r \in 1..MaxLoads : WF_vars(Settled(r))

\* ----------------------------------- DrawService (AdvancedOpenLayersMap)
\* coordinates.map(coord => `${coord[0]} ${coord[1]}`).join(', ')
RECURSIVE JoinCoordsSpaced(_)
JoinCoordsSpaced(cs) ==
    IF cs = <<>> THEN ""
    ELSE ToString(cs[1][1]) \o " " \o ToString(cs[1][2])
         \o (IF Len(cs) > 1 THEN ", " \o JoinCoordsSpaced(Tail(cs)) ELSE "")

\* GeometryUtils.formatPolygonToWKT: the coordinates it is given, then the
\* first of them once more.
formatPolygonToWKT(coordinates) ==
    "POLYGON ((" \o JoinCoordsSpaced(coordinates) \o ", "
        \o ToString(coordinates[1][1]) \o " " \o ToString(coordinates[1][2])
        \o "))"

DrawService_stopDrawing(s) ==
    IF s.drawInteraction # NULL
    THEN [removeInteraction(s, s.drawInteraction) EXCEPT !.drawInteraction = NULL]
    ELSE s

DrawService_startDrawing(s, geometryType) ==
    LET s1 == DrawService_stopDrawing(s)
        draw == [id |-> s1.nextId, kind |-> "Draw", type |-> geometryType,
                 onDrawEnd |-> NULL]
    IN  addInteraction([s1 EXCEPT !.drawInteraction = draw.id,
                                  !.nextId = @ + 1], draw)

\* The service exists only when the onPolygonDraw prop is given, so
\* this.onPolygonDraw is a function.
DrawService_clearDrawings(s) ==
    [s EXCEPT !.drawingSource = <<>>,
              !.onPolygonDrawCalls = Append(@, "null")]

\* The 'drawend' listener of DrawService.startDrawing on a finished sketch:
\* the outer ring of the geometry goes through formatPolygonToWKT to the
\* subscriber, and the Draw interaction adds the feature to drawSource.
DrawService_drawend(s, geometry) ==
    LET coordinates == geometry.coords
        wkt == formatPolygonToWKT(coordinates)
    IN  [s EXCEPT !.drawingSource = Append(@, geometry),
                  !.onPolygonDrawCalls = Append(@, wkt)]

\* The draw-service effect has constructed the service for the map.
InitDrawService ==
    /\ InitDrawing
    /\ IdleRest
    /\ IdleStyle
    /\ IdleBase
    /\ drawingLayerOnMap = TRUE
    /\ onPolygonDraw = TRUE
    /\ map = 1
    /\ component = "AdvancedOpenLayersMap"
    /\ mainVectorLayer = NULL
    /\ features = <<>>
    /\ featureStyle = <<>>
    /\ selectedRowIndex = "undefined"
    /\ viewCalls = <<>>
    /\ warnings = <<>>

\* The draw control: onStartDrawing('Polygon').
HandleStartDrawing ==
    /\ nextId < 3 * MaxGen
    /\ Commit(DrawService_startDrawing(svc, "Polygon"))
    /\ history' = Last2(history, [op |-> "handleStartDrawing", arg |-> "Polygon"])
    /\ UNCHANGED <<onPolygonDraw, map, selVars, styleVars, baseVars, restVars>>

HandleClearDrawings ==
    /\ Len(onPolygonDrawCalls) < MaxLog
    /\ Commit(DrawService_clearDrawings(svc))
    /\ history' = Last2(history, [op |-> "handleClearDrawings", arg |-> ""])
    /\ UNCHANGED <<onPolygonDraw, map, selVars, styleVars, baseVars, restVars>>

DrawServiceDrawEnd ==
    \E h \in AttachedDraw : \E g \in DrawnGeometries(h.type) :
        /\ Len(drawingSource) < MaxDrawn
        /\ Len(onPolygonDrawCalls) < MaxLog
        /\ Commit(DrawService_drawend(svc, g))
        /\ history' = Last2(history, [op |-> "drawend", arg |-> h.type])
        /\ UNCHANGED <<onPolygonDraw, map, selVars, styleVars, baseVars, restVars>>

NextDrawService == HandleStartDrawing \/ HandleClearDrawings \/ DrawServiceDrawEnd

SpecDrawService == InitDrawService /\ [][NextDrawService]_vars

\* ----------------------------- StyleFactory (AdvancedOpenLayersMap)
\* Math.round(opacity * 255).toString(16).padStart(2, '0') for an opacity in
\* tenths between 0 and 1.
alphaHex(opacity) ==
    LET n == (opacity * 51 + 1) \div 2
    IN  <<HexChars[(n \div 16) + 1], HexChars[(n % 16) + 1]>>

\* The entityColor prop of AdvancedOpenLayersMap is handed to StyleFactory as
\* colorConfig: absent, or an object with fillColor and fillOpacity (a
\* missing member is <<>> or 0).
AdvancedEntityColors ==
    {NoEntityColor,
     [given |-> TRUE,
      result |-> [fillColor |-> Chars7("f", "f", "0", "0", "0", "0"),
                  fillOpacity |-> 5]],
     [given |-> TRUE, result |-> [fillColor |-> <<>>, fillOpacity |-> 0]]}

StyleFactory_createFeatureStyle(feature, colorConfig, isSelected) ==
    LET baseColor == IF colorConfig.given /\ colorConfig.result.fillColor # <<>>
                     THEN colorConfig.result.fillColor
                     ELSE Chars7("3", "3", "8", "8", "f", "f")
        opacity == IF colorConfig.given /\ colorConfig.result.fillOpacity # 0
                   THEN colorConfig.result.fillOpacity
                   ELSE 6
        strokeColor == IF isSelected
                       THEN Chars7("f", "f", "0", "0", "0", "0")
                       ELSE Chars7("f", "f", "f", "f", "f", "f")
        strokeWidth == IF isSelected THEN 3 ELSE 1
        stroke == [color |-> [hex |-> strokeColor], width |-> strokeWidth]
    IN  CASE feature.geometry.type \in {"Point", "MultiPoint"} ->
                [image |-> [radius |-> IF isSelected THEN 8 ELSE 6,
                            fill |-> [hex |-> baseColor],
                            stroke |-> stroke]]
          [] feature.geometry.type \in {"LineString", "MultiLineString"} ->
                [stroke |-> [color |-> [hex |-> baseColor],
                             width |-> IF isSelected THEN 4 ELSE 2]]
          [] feature.geometry.type \in {"Polygon", "MultiPolygon"} ->
                [fill |-> [hex |-> baseColor \o alphaHex(opacity)],
                 stroke |-> stroke]
          [] OTHER ->
                [fill |-> [hex |-> baseColor], stroke |-> stroke]

\* The style function of VectorLayerService.createVectorLayer over the
\* features of the layer; selectedEntityId is the selectedRowIndex prop.
VectorLayerService_stylePass(fs, colorConfig, selectedEntityId) ==
    [done |-> TRUE,
     styles |-> [i \in 1..Len(fs) |->
                    StyleFactory_createFeatureStyle(fs[i], colorConfig,
                        fs[i].id = selectedEntityId)],
     error |-> FALSE,
     warned |-> 0]

\* The features the renderer styles: those that have a geometry.
AdvancedCollections ==
    {fs \in StyledCollections : \A i \in 1..Len(fs) : fs[i].geometry # NoGeometry}

\* The main-layer effect of AdvancedOpenLayersMap has added the vector layer
\* for the props of the mount.
InitAdvancedStyle ==
    /\ InitDrawing
    /\ IdleRest
    /\ IdleBase
    /\ drawingLayerOnMap = FALSE
    /\ onPolygonDraw = FALSE
    /\ map = 1
    /\ component = "AdvancedOpenLayersMap"
    /\ mainVectorLayer = 1
    /\ features \in AdvancedCollections
    /\ featureStyle = [i \in 1..Len(features) |-> "undefined"]
    /\ selectedRowIndex \in {"undefined", "001"}
    /\ viewCalls = <<>>
    /\ warnings = <<>>
    /\ entityColor \in AdvancedEntityColors
    /\ renderPass = [done |-> FALSE, styles |-> <<>>, error |-> FALSE, warned |-> 0]

\* The entityColor prop changes: the effect removes the vector layer and adds
\* a new one over the same GeoJSON.
AdvancedMainLayerEffect ==
    \E ec \in AdvancedEntityColors :
        /\ ec # entityColor
        /\ entityColor' = ec
        /\ renderPass' = [done |-> FALSE, styles |-> <<>>, error |-> FALSE, warned |-> 0]
        /\ UNCHANGED <<drawVars, selVars, baseVars, restVars>>

\* The renderer styles the features of the vector layer.
AdvancedStylePass ==
    /\ renderPass' = VectorLayerService_stylePass(features, entityColor, selectedRowIndex)
    /\ UNCHANGED <<drawVars, selVars, entityColor, baseVars, restVars>>

NextAdvancedStyle == AdvancedMainLayerEffect \/ AdvancedStylePass

SpecAdvancedStyle == InitAdvancedStyle /\ [][NextAdvancedStyle]_vars

\* ----------------------------------------- style shape per geometry type
\* One geometry of every type the style switches name, one of a type they
\* do not name, and the feature without geometry.
ShapeGeometries ==
    {[type |-> "Point", coords |-> <<<<Num(1), Num(2)>>>>],
     [type |-> "MultiPoint", coords |-> <<<<Num(3), Num(3)>>>>],
     [type |-> "LineString", coords |-> <<<<Num(0), Num(0)>>, <<Num(2), Num(1)>>>>],
     [type |-> "MultiLineString",
      coords |-> <<<<Num(0), Num(0)>>, <<Num(2), Num(1)>>>>],
     [type |-> "Polygon",
      coords |-> <<<<Num(0), Num(0)>>, <<Num(1), Num(0)>>, <<Num(1), Num(1)>>,
                   <<Num(0), Num(0)>>>>],
     [type |-> "MultiPolygon",
      coords |-> <<<<Num(0), Num(0)>>, <<Num(1), Num(0)>>, <<Num(1), Num(1)>>,
                   <<Num(0), Num(0)>>>>],
     [type |-> "GeometryCollection", coords |-> <<<<Num(1), Num(2)>>>>],
     NoGeometry}

\* The layers of the shape runs; the renderer of AdvancedOpenLayersMap is
\* handed only the features that have a geometry.
ShapedCollections(comp) ==
    UNION {[1..n -> [id : {"001"},
                     geometry : {g \in ShapeGeometries :
                                    comp = "AdvancedOpenLayersMap" =>
                                        g # NoGeometry}]] :
               n \in 1..MaxFeatures}

\* A component is mounted with a main layer; the main-layer effect and the
\* selected-feature effect have run once.
InitShape ==
    /\ InitDrawing
    /\ IdleRest
    /\ IdleBase
    /\ onPolygonDraw = FALSE
    /\ map = 1
    /\ component \in {"MapComponent.jsx", "ImprovedMapComponent.tsx",
                      "MapComponent.tsx", "AdvancedOpenLayersMap"}
    /\ drawingLayerOnMap = (component # "AdvancedOpenLayersMap")
    /\ mainVectorLayer = 1
    /\ features \in ShapedCollections(component)
    /\ selectedRowIndex \in {"undefined", "001"}
    /\ LET f == IF component = "AdvancedOpenLayersMap"
                THEN [featureStyle |-> [i \in 1..Len(features) |-> "undefined"],
                      viewCalls |-> <<>>, warnings |-> <<>>]
                ELSE selectedFeatureEffect(component, mainVectorLayer,
                        [features |-> features,
                         featureStyle |-> [i \in 1..Len(features) |-> "undefined"],
                         viewCalls |-> <<>>, warnings |-> <<>>],
                        selectedRowIndex)
       IN  /\ featureStyle = f.featureStyle
           /\ viewCalls = f.viewCalls
           /\ warnings = f.warnings
    /\ entityColor \in
          (IF component = "AdvancedOpenLayersMap"
           THEN AdvancedEntityColors
           ELSE {NoEntityColor,
                 [given |-> TRUE, result |-> [id \in FeatureIds |-> "custom"]]})
    /\ renderPass = [done |-> FALSE, styles |-> <<>>, error |-> FALSE, warned |-> 0]

\* The renderer styles the features with the style function of the mounted
\* component's layer.
LayerManagerStylePass == component # "AdvancedOpenLayersMap" /\ StylePass

StyleFactoryStylePass == component = "AdvancedOpenLayersMap" /\ AdvancedStylePass

NextShape == LayerManagerStylePass \/ StyleFactoryStylePass

SpecShape == InitShape /\ [][NextShape]_vars

\* --------------------------------- useMapInitialization (hooks, part_001)
\* The arguments the hook is rendered with.  A center is an array, compared
\* by identity in the dependency list: "DEFAULT_CENTER" is the constant,
\* the others are arrays made by the caller.
HookDeps ==
    [mapElementId : {"openlayers-map", "map"},
     center : {"DEFAULT_CENTER", "center1", "center2"},
     zoom : {DEFAULT_ZOOM, 12}]

hook ==
    [mounted |-> mounted, deps |-> deps, mapRef |-> mapRef,
     isMapReady |-> isMapReady, maps |-> maps, returned |-> returned]

\* The component keeps the map of the render that was committed last.
CommitHook(h) ==
    /\ mounted' = h.mounted
    /\ deps' = h.deps
    /\ mapRef' = h.mapRef
    /\ isMapReady' = h.isMapReady
    /\ maps' = h.maps
    /\ returned' = h.returned
    /\ map' = h.returned.map

\* The hook is rendered: return { map: mapRef.current, isMapReady }.
renderHook(h, d) ==
    [h EXCEPT !.deps = d,
              !.returned = [map |-> h.mapRef, isMapReady |-> h.isMapReady]]

\* The body of the effect.
hookEffect(h) ==
    IF h.mapRef = NULL
    THEN [h EXCEPT
            !.maps = Append(@, [target |-> h.deps.mapElementId,
                                center |-> h.deps.center,
                                zoom |-> h.deps.zoom]),
            !.mapRef = Len(h.maps) + 1,
            !.isMapReady = TRUE]
    ELSE h

\* The cleanup the effect returns.
hookCleanup(h) ==
    IF h.mapRef # NULL
    THEN [h EXCEPT
            !.maps[h.mapRef].target = "undefined",
            !.mapRef = NULL,
            !.isMapReady = FALSE]
    ELSE h

InitMapInit ==
    /\ InitDrawing
    /\ IdleSelection
    /\ IdleStyle
    /\ IdleBase
    /\ drawingLayerOnMap = FALSE
    /\ onPolygonDraw = FALSE
    /\ map = NULL
    /\ mounted = FALSE
    /\ deps \in HookDeps
    /\ mapRef = NULL
    /\ isMapReady = FALSE
    /\ maps = <<>>
    /\ returned = [map |-> NULL, isMapReady |-> FALSE]
    /\ IdleMain
    /\ IdleUtil

HookRest ==
    UNCHANGED <<drawInteraction, modifyInteraction, snapInteraction,
                drawingSource, nextId, interactions, drawingLayerOnMap,
                currentDrawingMode, onPolygonDraw, mapCalls, onDrawEndCalls,
                onPolygonDrawCalls, history, selVars, styleVars, baseVars,
                mainVars, utilVars>>

\* The component mounts: the first render, then the effect.
Mount ==
    /\ ~mounted
    /\ Len(maps) < MaxMaps
    /\ CommitHook(hookEffect(renderHook([hook EXCEPT !.mounted = TRUE], deps)))
    /\ HookRest

\* A state update is flushed: the component renders again with the same
\* arguments, so the effect does not run.
Rerender ==
    /\ mounted
    /\ CommitHook(renderHook(hook, deps))
    /\ HookRest

\* The parent renders the component with another element id, center or
\* zoom: the render, then the cleanup of the last effect, then the effect.
DepsChange ==
    /\ mounted
    /\ Len(maps) < MaxMaps
    /\ \E d \in HookDeps \ {deps} :
           CommitHook(hookEffect(hookCleanup(renderHook(hook, d))))
    /\ HookRest

\* The component unmounts: the cleanup of the last effect.
Unmount ==
    /\ mounted
    /\ CommitHook([hookCleanup(hook) EXCEPT !.mounted = FALSE])
    /\ HookRest

NextMapInit == Mount \/ Rerender \/ DepsChange \/ Unmount

SpecMapInit == InitMapInit /\ [][NextMapInit]_vars

\* ------------- main-layer effect (MapComponent.jsx, ImprovedMapComponent.tsx,
\* ------------- MapComponent.tsx, AdvancedOpenLayersMap)
\* The values of the mainLayer prop: null, a GeoJSON object with one Point
\* feature and one without features.
MainLayerArgs ==
    {NullMainLayer,
     FeatureCollection(<<[id |-> "001",
                          geometry |-> [type |-> "Point",
                                        coords |-> <<<<Num(1), Num(2)>>>>]]>>),
     FeatureCollection(<<>>)}

\* geoJsonFormat.readFeatures(geoJsonData) in createVectorLayer.
readFeatures(geoJsonData) == geoJsonData.features

\* The state of a component that the main-layer effect and the hooks it
\* depends on read and write.
main ==
    [hook |-> hook,
     mainLayer |-> mainLayer,
     mainCleanup |-> mainCleanup,
     timers |-> timers,
     set |-> FALSE,                 \* setMainVectorLayer was called
     mainVectorLayer |-> mainVectorLayer,
     features |-> features,
     mapLayers |-> mapLayers,
     runs |-> runs,
     map |-> map,
     layerArray |-> layerArray,
     visibleLayers |-> visibleLayers,
     selectedBaseLayer |-> selectedBaseLayer]

CommitMain(c) ==
    /\ mounted' = c.hook.mounted
    /\ deps' = c.hook.deps
    /\ mapRef' = c.hook.mapRef
    /\ isMapReady' = c.hook.isMapReady
    /\ maps' = c.hook.maps
    /\ returned' = c.hook.returned
    /\ map' = (IF component = "AdvancedOpenLayersMap" THEN c.map
               ELSE c.hook.returned.map)
    /\ mainLayer' = c.mainLayer
    /\ mainCleanup' = c.mainCleanup
    /\ timers' = c.timers
    /\ mainVectorLayer' = c.mainVectorLayer
    /\ features' = c.features
    /\ featureStyle' = [i \in 1..Len(c.features) |-> "undefined"]
    /\ mapLayers' = c.mapLayers
    /\ runs' = c.runs
    /\ layerArray' = c.layerArray
    /\ visibleLayers' = c.visibleLayers
    /\ drawingLayerOnMap' = DrawLayerIn(c.layerArray)
    /\ viewCalls' = <<>>
    /\ warnings' = <<>>
    /\ UNCHANGED <<drawInteraction, modifyInteraction, snapInteraction,
                   drawingSource, nextId, interactions, currentDrawingMode,
                   onPolygonDraw, mapCalls, onDrawEndCalls, onPolygonDrawCalls,
                   history, component, selectedRowIndex, styleVars,
                   baseLayers, baseLayerConfigs, selectedBaseLayer,
                   layerError, isLoadingLayers, utilVars>>

\* The cleanup of the main-layer effect: the layer it added is removed from
\* the map it was added to, if it is still there.
mainLayerCleanup(c) ==
    IF c.mainCleanup = NoCleanup THEN c
    ELSE [c EXCEPT
            !.mapLayers = {e \in @ : ~(e.map = c.mainCleanup.map
                                       /\ e.layer.run = c.mainCleanup.layer)},
            !.mainCleanup = NoCleanup]

\* The body of the main-layer effect with the values of the render it
\* belongs to.  MapComponent.tsx has no auto-fit.
mainLayerBody(comp, c) ==
    LET r == c.hook.returned
        n == Len(c.runs) + 1
        layerCenter == c.hook.deps.center # "DEFAULT_CENTER"
    IN  IF ~r.isMapReady \/ r.map = NULL \/ c.mainLayer = NullMainLayer
        THEN c
        ELSE [c EXCEPT
                !.runs = Append(@, [map |-> r.map, pc |-> "done"]),
                !.mainVectorLayer = n,
                !.features = readFeatures(c.mainLayer),
                !.set = TRUE,
                !.mapLayers = @ \cup {[map |-> r.map, layer |-> VectorLayer(n, "layer")]},
                !.timers =
                    IF comp # "MapComponent.tsx" /\ ~layerCenter
                    THEN @ \cup {[map |-> r.map, layer |-> n,
                                  features |-> readFeatures(c.mainLayer)]}
                    ELSE @,
                !.mainCleanup = [map |-> r.map, layer |-> n]]

\* One render of a component built on useMapInitialization, with the hook
\* arguments d, and the effects that follow it.  changed: mainLayer,
\* layerName or entityColor differ from the last render.  layerCenter is a
\* dependency of the main-layer effect except in MapComponent.tsx.
renderComponent(comp, c, d, changed) ==
    LET first == ~c.hook.mounted
        h1 == renderHook([c.hook EXCEPT !.mounted = TRUE], d)
        h2 == IF first THEN hookEffect(h1)
              ELSE IF d # c.hook.deps THEN hookEffect(hookCleanup(h1))
              ELSE h1
        rerun == \/ first
                 \/ changed
                 \/ h1.returned # c.hook.returned
                 \/ (comp # "MapComponent.tsx" /\ d.center # c.hook.deps.center)
        c1 == [c EXCEPT !.hook = h2, !.set = FALSE]
    IN  IF rerun THEN mainLayerBody(comp, mainLayerCleanup(c1)) ELSE c1

\* The renders that follow while a state update is pending.  A render is
\* certain after setMainVectorLayer and after a change of isMapReady;
\* flush: the component also renders again when only mapRef.current
\* changed.
RECURSIVE settle(_, _, _)
settle(comp, c, flush) ==
    IF \/ c.set
       \/ c.hook.isMapReady # c.hook.returned.isMapReady
       \/ (flush /\ c.hook.mapRef # c.hook.returned.map)
    THEN settle(comp, renderComponent(comp, c, c.hook.deps, FALSE), flush)
    ELSE c

\* AdvancedOpenLayersMap keeps the map in a useState and constructs it in an
\* effect on [layerCenter]; the effects on map then run for the new map.
\* Its main-layer effect returns at once without a mainLayer.
Advanced_render(c, d, changed, withDraw) ==
    LET withMain == c.mainLayer # NullMainLayer
        c1 == [c EXCEPT !.hook.deps = d]
    IN  IF d.center # c.hook.deps.center
        THEN mapEffects([c1 EXCEPT !.map = @ + 1, !.layerArray = <<>>],
                        c.map + 1, withDraw, withMain)
        ELSE IF changed /\ withMain THEN mainLayerEffect(c1, c.map)
        ELSE c1

\* A render with new props and everything that follows from it.
propsChange(comp, c, d, changed, flush) ==
    IF comp = "AdvancedOpenLayersMap"
    THEN Advanced_render(c, d, changed, onPolygonDraw)
    ELSE settle(comp, renderComponent(comp, c, d, changed), flush)

MainLayerComponents ==
    {"MapComponent.jsx", "ImprovedMapComponent.tsx", "MapComponent.tsx",
     "AdvancedOpenLayersMap"}

\* The component has mounted with some props and has rendered until no
\* state update is pending.
InitMainLayer ==
    /\ InitDrawing
    /\ IdleStyle
    /\ IdleUtil
    /\ component \in MainLayerComponents
    /\ onPolygonDraw \in (IF component = "AdvancedOpenLayersMap"
                          THEN BOOLEAN ELSE {FALSE})
    /\ selectedRowIndex = "undefined"
    /\ viewCalls = <<>>
    /\ warnings = <<>>
    /\ baseLayers = {}
    /\ baseLayerConfigs = <<>>
    /\ selectedBaseLayer = (IF component = "AdvancedOpenLayersMap"
                            THEN "satellite" ELSE "")
    /\ layerError = "null"
    /\ isLoadingLayers = TRUE
    /\ \E g \in MainLayerArgs, center \in {"DEFAULT_CENTER", "center1"} :
          LET d == [mapElementId |-> "openlayers-map", center |-> center,
                    zoom |-> DEFAULT_ZOOM]
              idle == [hook |-> [mounted |-> FALSE, deps |-> d, mapRef |-> NULL,
                                 isMapReady |-> FALSE, maps |-> <<>>,
                                 returned |-> [map |-> NULL, isMapReady |-> FALSE]],
                       mainLayer |-> g, mainCleanup |-> NoCleanup, timers |-> {},
                       set |-> FALSE, mainVectorLayer |-> NULL, features |-> <<>>,
                       mapLayers |-> {}, runs |-> <<>>, map |-> NULL,
                       layerArray |-> <<>>, visibleLayers |-> {},
                       selectedBaseLayer |-> selectedBaseLayer]
              c == IF component = "AdvancedOpenLayersMap"
                   THEN mapEffects([idle EXCEPT !.map = 1, !.hook.mounted = TRUE],
                                   1, onPolygonDraw, g # NullMainLayer)
                   ELSE settle(component,
                               renderComponent(component, idle, d, FALSE), FALSE)
          IN  /\ mounted = c.hook.mounted
              /\ deps = c.hook.deps
              /\ mapRef = c.hook.mapRef
              /\ isMapReady = c.hook.isMapReady
              /\ maps = c.hook.maps
              /\ returned = c.hook.returned
              /\ map = (IF component = "AdvancedOpenLayersMap" THEN c.map
                        ELSE c.hook.returned.map)
              /\ mainLayer = c.mainLayer
              /\ mainCleanup = c.mainCleanup
              /\ timers = c.timers
              /\ mainVectorLayer = c.mainVectorLayer
              /\ features = c.features
              /\ featureStyle = [i \in 1..Len(c.features) |-> "undefined"]
              /\ mapLayers = c.mapLayers
              /\ runs = c.runs
              /\ layerArray = c.layerArray
              /\ visibleLayers = c.visibleLayers
              /\ drawingLayerOnMap = DrawLayerIn(c.layerArray)

\* The result of an operation stays within the bounds of the model.
WithinBounds(c) ==
    /\ Len(c.runs) <= MaxRuns
    /\ Len(c.hook.maps) <= MaxMaps
    /\ c.map = NULL \/ c.map <= MaxMaps

\* The parent passes another mainLayer.
MainLayerChange ==
    \E g \in MainLayerArgs \ {mainLayer} :
        LET c == propsChange(component, [main EXCEPT !.mainLayer = g], deps,
                             TRUE, FALSE)
        IN  WithinBounds(c) /\ CommitMain(c)

\* The parent passes another layerName or entityColor.
LayerNameOrColorChange ==
    LET c == propsChange(component, main, deps, TRUE, FALSE)
    IN  WithinBounds(c) /\ CommitMain(c)

\* The parent passes another layerCenter: an array of another identity, or
\* none.
LayerCenterChange ==
    \E center \in {"DEFAULT_CENTER", "center1", "center2"} \ {deps.center},
       flush \in BOOLEAN :
        LET c == propsChange(component, main, [deps EXCEPT !.center = center],
                             FALSE, flush)
        IN  WithinBounds(c) /\ CommitMain(c)

\* The timer of an auto-fit fires: layerManager.fitToLayerExtent(map,
\* vectorLayer) with the map and the layer of the run that set it.
AutoFitTimer(t) ==
    /\ t \in timers
    /\ timers' = timers \ {t}
    /\ viewCalls' =
          fitToLayerExtent([features |-> t.features, featureStyle |-> <<>>,
                            viewCalls |-> <<>>, warnings |-> <<>>]).viewCalls
    /\ UNCHANGED <<drawVars, component, mainVectorLayer, features, featureStyle,
                   selectedRowIndex, warnings, styleVars, baseVars, hookVars,
                   mainLayer, mainCleanup, utilVars>>

AutoFitTimerFires == \E t \in timers : AutoFitTimer(t)

NextMainLayer ==
    \/ MainLayerChange
    \/ LayerNameOrColorChange
    \/ LayerCenterChange
    \/ AutoFitTimerFires

SpecMainLayer == InitMainLayer /\ [][NextMainLayer]_vars

\* ------------------------------------------------------------- App.jsx
\* App renders MapComponent.jsx with mainLayer={sampleMainLayer} and
\* layerCenter={[35.2137, 31.7683]}: an object and an array made anew by
\* every render of App.  The callbacks are made with useCallback and keep
\* their identity.
\* The collections sampleMainLayer stands for: Point and Polygon features.
SampleMainLayers ==
    UNION {[1..n -> [id : FeatureIds,
                     geometry : {g \in LayerGeometries :
                                    /\ g.type \in {"Point", "Polygon"}
                                    /\ g.coords # <<>>}]] :
               n \in 1..MaxFeatures}

\* The state of MapComponent.jsx under App: the state of the main-layer
\* effect, the selectedRowIndex of the last render, the mainVectorLayer of
\* the last render, and the styles set on the features of every layer made.
app ==
    [hook |-> hook,
     mainLayer |-> mainLayer,
     mainCleanup |-> mainCleanup,
     timers |-> timers,
     set |-> FALSE,
     mainVectorLayer |-> mainVectorLayer,
     features |-> features,
     mapLayers |-> mapLayers,
     runs |-> runs,
     selectedRowIndex |-> selectedRowIndex,
     renderedLayer |-> mainVectorLayer,
     styles |-> [n \in 1..Len(runs) |->
                    IF n = mainVectorLayer THEN featureStyle
                    ELSE [i \in 1..Len(features) |-> "undefined"]],
     viewCalls |-> <<>>,
     warnings |-> <<>>]

\* One render of MapComponent.jsx with the hook arguments d and the
\* selectedRowIndex index, and its effects: useMapInitialization, the
\* main-layer effect (mainLayer is another object in every render), and the
\* selected-feature effect, which works on the mainVectorLayer of the
\* render.
MapComponent_render(c, d, index, changed) ==
    LET layer == c.mainVectorLayer
        c1 == renderComponent("MapComponent.jsx", c, d, changed)
        c2 == [c1 EXCEPT
                !.styles = IF Len(c1.runs) > Len(@)
                           THEN Append(@, [i \in 1..Len(c1.features) |-> "undefined"])
                           ELSE @,
                !.selectedRowIndex = index,
                !.renderedLayer = layer]
        rerun == \/ index # c.selectedRowIndex
                 \/ layer # c.renderedLayer
                 \/ c1.hook.returned.map # c.hook.returned.map
    IN  IF rerun /\ layer # NULL /\ ~IsFalsy(index)
        THEN LET f == selectedFeatureEffect("MapComponent.jsx", layer,
                        [features |-> c.features,
                         featureStyle |-> c2.styles[layer],
                         viewCalls |-> <<>>, warnings |-> <<>>],
                        index)
             IN  [c2 EXCEPT !.styles[layer] = f.featureStyle,
                            !.viewCalls = @ \o f.viewCalls,
                            !.warnings = @ \o f.warnings]
        ELSE c2

\* The renders that follow while a state update is pending.
RECURSIVE MapComponent_settle(_)
MapComponent_settle(c) ==
    IF \/ c.set
       \/ c.hook.isMapReady # c.hook.returned.isMapReady
       \/ c.renderedLayer # c.mainVectorLayer
    THEN CHOOSE settledState \in
            {MapComponent_settle(rendered) :
                rendered \in {MapComponent_render(c, c.hook.deps,
                                                  c.selectedRowIndex, FALSE)}} :
            TRUE
    ELSE c

CommitApp(c) ==
    /\ CommitHook(c.hook)
    /\ mainLayer' = c.mainLayer
    /\ mainCleanup' = c.mainCleanup
    /\ timers' = c.timers
    /\ mainVectorLayer' = c.mainVectorLayer
    /\ features' = c.features
    /\ featureStyle' = (IF c.mainVectorLayer = NULL THEN <<>>
                        ELSE c.styles[c.mainVectorLayer])
    /\ mapLayers' = c.mapLayers
    /\ runs' = c.runs
    /\ selectedRowIndex' = c.selectedRowIndex
    /\ viewCalls' = c.viewCalls
    /\ warnings' = c.warnings
    /\ UNCHANGED <<drawInteraction, modifyInteraction, snapInteraction,
                   drawingSource, nextId, interactions, drawingLayerOnMap,
                   currentDrawingMode, onPolygonDraw, mapCalls, onDrawEndCalls,
                   onPolygonDrawCalls, history, component, styleVars,
                   visibleLayers, baseLayers, baseLayerConfigs,
                   selectedBaseLayer, layerError, isLoadingLayers, layerArray,
                   utilVars>>

\* App has mounted with selectedRowIndex undefined and MapComponent has
\* rendered until no state update is pending.
InitApp ==
    /\ InitDrawing
    /\ IdleStyle
    /\ IdleUtil
    /\ component = "MapComponent.jsx"
    /\ drawingLayerOnMap = TRUE
    /\ onPolygonDraw = TRUE
    /\ visibleLayers = {}
    /\ baseLayers = {}
    /\ baseLayerConfigs = <<>>
    /\ selectedBaseLayer = "satellite"
    /\ layerError = "null"
    /\ isLoadingLayers = TRUE
    /\ layerArray = <<>>
    /\ \E fs \in SampleMainLayers :
          LET d == [mapElementId |-> "openlayers-map", center |-> "center1",
                    zoom |-> DEFAULT_ZOOM]
              idle == [hook |-> [mounted |-> FALSE, deps |-> d, mapRef |-> NULL,
                                 isMapReady |-> FALSE, maps |-> <<>>,
                                 returned |-> [map |-> NULL, isMapReady |-> FALSE]],
                       mainLayer |-> FeatureCollection(fs),
                       mainCleanup |-> NoCleanup, timers |-> {}, set |-> FALSE,
                       mainVectorLayer |-> NULL, features |-> <<>>,
                       mapLayers |-> {}, runs |-> <<>>,
                       selectedRowIndex |-> "undefined", renderedLayer |-> NULL,
                       styles |-> <<>>, viewCalls |-> <<>>, warnings |-> <<>>]
          IN  \E rendered \in {MapComponent_render(idle, d, "undefined", FALSE)} :
              \E c \in {MapComponent_settle(rendered)} :
              /\ mounted = c.hook.mounted
              /\ deps = c.hook.deps
              /\ mapRef = c.hook.mapRef
              /\ isMapReady = c.hook.isMapReady
              /\ maps = c.hook.maps
              /\ returned = c.hook.returned
              /\ map = c.hook.returned.map
              /\ mainLayer = c.mainLayer
              /\ mainCleanup = c.mainCleanup
              /\ timers = c.timers
              /\ mainVectorLayer = c.mainVectorLayer
              /\ features = c.features
              /\ featureStyle = c.styles[c.mainVectorLayer]
              /\ mapLayers = c.mapLayers
              /\ runs = c.runs
              /\ selectedRowIndex = c.selectedRowIndex
              /\ viewCalls = c.viewCalls
              /\ warnings = c.warnings

\* App renders with the selectedRowIndex index and MapComponent renders
\* until no state update is pending.
App_render(index) ==
    /\ Len(maps) <= MaxRenders
    /\ \E center \in {"center1", "center2"} \ {deps.center} :
          \E rendered \in {MapComponent_render(
                                app, [deps EXCEPT !.center = center],
                                index, TRUE)} :
              \E c \in {MapComponent_settle(rendered)} : CommitApp(c)

\* One of the three buttons of App is clicked:
\* setSelectedRowIndex('001' | '002' | undefined) with a value that differs
\* from the state, so App renders.
SetSelectedRowIndex ==
    \E index \in {"001", "002", "undefined"} \ {selectedRowIndex} :
        App_render(index)

\* A feature is clicked on the map: handleEntitySelection sets
\* selectedEntity to the properties object, and App renders.
HandleEntitySelection == App_render(selectedRowIndex)

NextApp == SetSelectedRowIndex \/ HandleEntitySelection

SpecApp == InitApp /\ [][NextApp]_vars

\* ------------------- WMTSConfigService.getConfiguredBaseLayers (part_004)
\* The constant baseLayerConfigs of getConfiguredBaseLayers.
WMTSConfigService_baseLayerConfigs ==
    <<[id |-> "orthophoto-best", productType |-> "OrthophotoBest",
       productId |-> "ORTHOPHOTO_MOSAIC_BASE"],
      [id |-> "bluemarble", productType |-> "Raster",
       productId |-> "bluemarble_5km"]>>

\* What the catalog server does with one request: the fetch fails, the
\* response is not ok, or the response is parsed into records, each with
\* the links parseCSWResponse collected.
CSWRecords ==
    LET wmts(u) == [scheme |-> "WMTS", url |-> u]
        wms == [scheme |-> "WMS", url |-> "wms"]
        rec(links) == [links |-> links]
    IN  {<<>>,
         <<rec(<<>>)>>,
         <<rec(<<wms>>)>>,
         <<rec(<<wmts("a")>>)>>,
         <<rec(<<wmts("")>>)>>,
         <<rec(<<wms, wmts("a")>>)>>,
         <<rec(<<wmts("a"), wmts("b")>>)>>,
         <<rec(<<wms>>), rec(<<wmts("b")>>)>>,
         <<rec(<<wmts("b")>>), rec(<<>>)>>}

CSWResponses ==
    {[fetch |-> "failed", records |-> <<>>],
     [fetch |-> "notOk", records |-> <<>>]}
        \cup {[fetch |-> "ok", records |-> rs] : rs \in CSWRecords}

\* queryCSWCatalog for a request the server answers with response: the
\* parsed records, or the error thrown again by its catch block.
queryCSWCatalog(response) ==
    IF response.fetch = "ok"
    THEN [threw |-> FALSE, value |-> response.records]
    ELSE [threw |-> TRUE, value |-> <<>>]

\* links.find(link => link.scheme === 'WMTS'): the first such link, in a
\* sequence of at most one element (empty for undefined).
find_WMTS(links) ==
    LET hits == {j \in 1..Len(links) : links[j].scheme = "WMTS"}
    IN  IF hits = {} THEN <<>>
        ELSE <<links[CHOOSE j \in hits : \A k \in hits : j <= k]>>

\* The state of one call of getConfiguredBaseLayers.
catalog ==
    [configIndex |-> configIndex,
     catalogLayers |-> catalogLayers,
     responses |-> responses,
     settled |-> settled]

CommitCatalog(c) ==
    /\ configIndex' = c.configIndex
    /\ catalogLayers' = c.catalogLayers
    /\ responses' = c.responses
    /\ settled' = c.settled

\* The loop moves on to the next config, or the function returns layers.
nextConfig(c) ==
    IF c.configIndex = Len(WMTSConfigService_baseLayerConfigs)
    THEN [c EXCEPT !.configIndex = 0, !.settled = "fulfilled"]
    ELSE [c EXCEPT !.configIndex = @ + 1]

\* The loop body without its try/catch: an error thrown by the query
\* leaves the function.
loopBody_NoCatch(c, response) ==
    LET config == WMTSConfigService_baseLayerConfigs[c.configIndex]
        query == queryCSWCatalog(response)
        cswRecords == query.value
        seen == [c EXCEPT !.responses = Append(@, response)]
    IN  IF query.threw
        THEN [seen EXCEPT !.configIndex = 0, !.settled = "rejected"]
        ELSE IF Len(cswRecords) > 0
        THEN LET wmtsLink == find_WMTS(cswRecords[1].links)
             IN  IF wmtsLink # <<>>
                 THEN nextConfig([seen EXCEPT !.catalogLayers =
                          Append(@, [id |-> config.id,
                                     productType |-> config.productType,
                                     productId |-> config.productId,
                                     url |-> wmtsLink[1].url])])
                 ELSE nextConfig(seen)
        ELSE nextConfig(seen)

\* One pass of the for loop, from the await of queryCSWCatalog on, for the
\* config at configIndex and the server's response to its request.
loopBody(c, response) ==
    LET config == WMTSConfigService_baseLayerConfigs[c.configIndex]
        query == queryCSWCatalog(response)
        cswRecords == query.value
        seen == [c EXCEPT !.responses = Append(@, response)]
    IN  IF query.threw
        THEN nextConfig(seen)
        ELSE IF Len(cswRecords) > 0
        THEN LET wmtsLink == find_WMTS(cswRecords[1].links)
             IN  IF wmtsLink # <<>>
                 THEN nextConfig([seen EXCEPT !.catalogLayers =
                          Append(@, [id |-> config.id,
                                     productType |-> config.productType,
                                     productId |-> config.productId,
                                     url |-> wmtsLink[1].url])])
                 ELSE nextConfig(seen)
        ELSE nextConfig(seen)

\* getConfiguredBaseLayers up to its first await.
getConfiguredBaseLayers ==
    [configIndex |-> 1, catalogLayers |-> <<>>, responses |-> <<>>,
     settled |-> "pending"]

CatalogRest ==
    UNCHANGED <<drawVars, selVars, styleVars, baseVars, hookVars, mainVars,
                zoomVars, bboxVars>>

InitCatalog ==
    /\ InitDrawing
    /\ IdleSelection
    /\ IdleStyle
    /\ IdleBase
    /\ IdleHook
    /\ IdleMain
    /\ IdleZoom
    /\ IdleBBox
    /\ IdleCatalog
    /\ drawingLayerOnMap = FALSE
    /\ onPolygonDraw = FALSE
    /\ map = NULL

\* getConfiguredBaseLayers is called (no call is pending).
GetConfiguredBaseLayers ==
    /\ settled # "pending"
    /\ CommitCatalog(getConfiguredBaseLayers)
    /\ CatalogRest

\* The catalog query the call awaits settles.
QueryCSWCatalogSettles ==
    /\ settled = "pending"
    /\ \E response \in CSWResponses : CommitCatalog(loopBody(catalog, response))
    /\ CatalogRest

NextCatalog == GetConfiguredBaseLayers \/ QueryCSWCatalogSettles

SpecCatalog == InitCatalog /\ [][NextCatalog]_vars

\* ----------------------- zoom controls (useMapControls; MapControls, part_005)
Math_min(a, b) == IF a <= b THEN a ELSE b

\* The zoom the view settles at when an animation to zoom z ends: the View
\* of useMapInitialization is constructed with minZoom and maxZoom, the
\* View of AdvancedOpenLayersMap with neither, so that it has the defaults
\* of ol/View, 0 and 28.
constrainZoom(comp, z) ==
    IF comp = "AdvancedOpenLayersMap"
    THEN Math_max(0, Math_min(z, 28))
    ELSE Math_max(MIN_ZOOM, Math_min(z, MAX_ZOOM))

\* zoomIn and zoomOut of useMapControls: the argument of view.animate for a
\* view whose getZoom() is z.
useMapControls_zoomIn(z) ==
    LET currentZoom == IF z = 0 THEN DEFAULT_ZOOM ELSE z
    IN  [zoom |-> Math_min(currentZoom + 1, MAX_ZOOM), duration |-> 300]

useMapControls_zoomOut(z) ==
    LET currentZoom == IF z = 0 THEN DEFAULT_ZOOM ELSE z
    IN  [zoom |-> Math_max(currentZoom - 1, MIN_ZOOM), duration |-> 300]

\* zoomIn and zoomOut of the MapControls component of AdvancedOpenLayersMap.
MapControls_zoomIn(z) == [zoom |-> z + 1, duration |-> 250]

MapControls_zoomOut(z) == [zoom |-> z - 1, duration |-> 250]

zoomIn(comp, z) ==
    IF comp = "AdvancedOpenLayersMap"
    THEN MapControls_zoomIn(z) ELSE useMapControls_zoomIn(z)

zoomOut(comp, z) ==
    IF comp = "AdvancedOpenLayersMap"
    THEN MapControls_zoomOut(z) ELSE useMapControls_zoomOut(z)

ZoomRest ==
    UNCHANGED <<drawVars, selVars, styleVars, baseVars, hookVars, mainVars,
                catalogVars, bboxVars>>

\* A mounted component with its map; the view starts at the zoom it was
\* constructed with: any zoom of the range for useMapInitialization, 8 for
\* AdvancedOpenLayersMap.
InitZoom ==
    /\ InitDrawing
    /\ IdleStyle
    /\ IdleBase
    /\ IdleHook
    /\ IdleMain
    /\ IdleCatalog
    /\ IdleBBox
    /\ component \in MainLayerComponents
    /\ mainVectorLayer = NULL
    /\ features = <<>>
    /\ featureStyle = <<>>
    /\ selectedRowIndex = "undefined"
    /\ viewCalls = <<>>
    /\ warnings = <<>>
    /\ drawingLayerOnMap = FALSE
    /\ onPolygonDraw = FALSE
    /\ map = 1
    /\ viewZoom \in (IF component = "AdvancedOpenLayersMap"
                     THEN {8} ELSE MIN_ZOOM..MAX_ZOOM)
    /\ animation = <<>>

\* The zoom-in button is clicked.
ZoomIn ==
    /\ map # NULL
    /\ animation' = <<zoomIn(component, viewZoom)>>
    /\ UNCHANGED viewZoom
    /\ ZoomRest

\* The zoom-out button is clicked.
ZoomOut ==
    /\ map # NULL
    /\ animation' = <<zoomOut(component, viewZoom)>>
    /\ UNCHANGED viewZoom
    /\ ZoomRest

\* The animation requested last runs to its end.
AnimationEnds ==
    /\ animation # <<>>
    /\ viewZoom' = constrainZoom(component, animation[1].zoom)
    /\ animation' = <<>>
    /\ ZoomRest

NextZoom == ZoomIn \/ ZoomOut \/ AnimationEnds

SpecZoom == InitZoom /\ [][NextZoom]_vars

\* ---------------------- WMTSConfigService.extractBoundingBox (part_004)
\* The footprints extractBoundingBox is exercised with: null, a geometry
\* that is no Polygon, and Polygons without coordinates (undefined or []),
\* with an empty outer ring, and with an outer ring of up to MaxRing
\* positions, alone or followed by a hole.
RingPositions == {<<Num(x), Num(y)>> : x \in {-1, 0, 2}, y \in {0, 1, 3}}

RECURSIVE Rings(_)
Rings(n) ==
    IF n = 0 THEN {<<>>}
    ELSE Rings(n - 1)
            \cup {Append(r, p) : r \in {q \in Rings(n - 1) : Len(q) = n - 1},
                                 p \in RingPositions}

Footprints ==
    {NullFootprint,
     [type |-> "LineString", coordinates |-> <<<<Num(0), Num(1)>>>>],
     [type |-> "Polygon", coordinates |-> <<>>]}
        \cup {[type |-> "Polygon", coordinates |-> <<r>>] : r \in Rings(MaxRing)}
        \cup {[type |-> "Polygon",
               coordinates |-> <<r, <<<<Num(0), Num(0)>>>>>>] :
                  r \in Rings(1)}

\* coordinates.forEach(...) over the ring, from the extent e.
RECURSIVE forEachPosition(_, _)
forEachPosition(coordinates, e) ==
    IF coordinates = <<>> THEN e
    ELSE LET x == coordinates[1][1]
             y == coordinates[1][2]
         IN  forEachPosition(Tail(coordinates),
                 <<NumMin(e[1], x), NumMin(e[2], y),
                   NumMax(e[3], x), NumMax(e[4], y)>>)

\* extractBoundingBox: null, or [minX, minY, maxX, maxY].  An empty array
\* is truthy, so an empty outer ring passes the guard.
extractBoundingBox(fp) ==
    IF \/ fp.type = "null"
       \/ fp.type # "Polygon"
       \/ Len(fp.coordinates) = 0
    THEN [null |-> TRUE, value |-> <<>>]
    ELSE [null |-> FALSE,
          value |-> forEachPosition(fp.coordinates[1],
                        <<Infinity, Infinity, NegInfinity, NegInfinity>>)]

BBoxRest ==
    UNCHANGED <<drawVars, selVars, styleVars, baseVars, hookVars, mainVars,
                catalogVars, zoomVars>>

InitBBox ==
    /\ InitDrawing
    /\ IdleSelection
    /\ IdleStyle
    /\ IdleBase
    /\ IdleHook
    /\ IdleMain
    /\ IdleCatalog
    /\ IdleZoom
    /\ drawingLayerOnMap = FALSE
    /\ onPolygonDraw = FALSE
    /\ map = NULL
    /\ footprint \in Footprints
    /\ boundingBox = <<>>

\* extractBoundingBox is called with the footprint.
ExtractBoundingBox ==
    /\ boundingBox = <<>>
    /\ boundingBox' = <<extractBoundingBox(footprint)>>
    /\ UNCHANGED footprint
    /\ BBoxRest

\* The footprint of another record is taken up.
NextFootprint ==
    /\ boundingBox # <<>>
    /\ footprint' \in Footprints
    /\ boundingBox' = <<>>
    /\ BBoxRest

NextBBox == ExtractBoundingBox \/ NextFootprint

SpecBBox == InitBBox /\ [][NextBBox]_vars

\* ------------------------------------------------------------ properties
LastOp == IF history = <<>> THEN [op |-> "", arg |-> ""] ELSE history[Len(history)]

\* The generation of a handler: the startDrawing call that constructed it
\* (each call constructs three objects with consecutive identities).
GenOf(h) == (h.id - 1) \div 3

\* C1: after any sequence of startDrawing, stopDrawing, clearDrawing and
\* drawend events the map has at most one {draw, modify, snap} triple
\* attached, all of one generation, and it is the triple the service holds.
C1_AtMostOneTriple ==
    /\ \A k \in {"Draw", "Modify", "Snap"} :
          Cardinality({h \in interactions : h.kind = k}) <= 1
    /\ Cardinality({GenOf(h) : h \in interactions}) <= 1
    /\ \A h \in interactions :
          h.id \in {drawInteraction, modifyInteraction, snapInteraction}

\* A second generation of handlers is attached (the first was detached).
C1_Witness ==
    /\ Cardinality(interactions) = 3
    /\ \A h \in interactions : GenOf(h) = 1
    /\ Len(history) = 2 /\ history[1].op = "startDrawing"
    /\ history[2].op = "startDrawing"

\* C7: the clear operation empties the drawing source and notifies the
\* subscriber with null: right after handleClearDrawing no committed shape
\* remains and the last value the subscriber received is null.
C7_ClearEmptiesAndNotifies ==
    LastOp.op = "handleClearDrawing" =>
        /\ drawingSource = <<>>
        /\ onPolygonDraw =>
              /\ onPolygonDrawCalls # <<>>
              /\ onPolygonDrawCalls[Len(onPolygonDrawCalls)] = "null"

\* A shape was committed and reported, then cleared.
C7_Witness ==
    /\ Len(history) = 2 /\ history[1].op = "drawend"
    /\ history[2].op = "handleClearDrawing"
    /\ onPolygonDraw /\ Len(onPolygonDrawCalls) = 2
    /\ drawingSource = <<>>

C9_StartReplacesHandlers ==
    (LastOp.op = "startDrawing" /\ LastOp.arg \in {"polygon", "line", "point"}) =>
        /\ Cardinality(interactions) = 3
        /\ \A h \in interactions : h.id >= nextId - 3
        /\ \E h \in interactions :
              /\ h.kind = "Draw"
              /\ h.id = drawInteraction
              /\ h.type = (CASE LastOp.arg = "polygon" -> "Polygon"
                             [] LastOp.arg = "line" -> "LineString"
                             [] OTHER -> "Point")

\* startDrawing(Polygon) then startDrawing(Line).
C9_Witness ==
    /\ history = <<[op |-> "startDrawing", arg |-> "polygon"],
                   [op |-> "startDrawing", arg |-> "line"]>>
    /\ \E h \in interactions : h.kind = "Draw" /\ h.type = "LineString"

\* C10: stopDrawing leaves no handler attached and the service idle, and
\* called with no handler attached it makes no removeInteraction call and
\* changes nothing.
C10_StopIdempotent ==
    /\ LastOp.op = "stopDrawing" =>
          /\ interactions = {}
          /\ ~isDrawing(svc)
          /\ modifyInteraction = NULL /\ snapInteraction = NULL
    /\ (Len(history) = 2 /\ history[1].op = "stopDrawing"
            /\ history[2].op = "stopDrawing") => mapCalls = <<>>
    /\ (drawInteraction = NULL /\ modifyInteraction = NULL
            /\ snapInteraction = NULL) => stopDrawing(svc) = svc

\* stopDrawing twice in a row after handlers had been attached.
C10_Witness ==
    /\ Len(history) = 2 /\ history[1].op = "stopDrawing"
    /\ history[2].op = "stopDrawing"
    /\ nextId > 1 /\ mapCalls = <<>> /\ interactions = {}

\* ------------------------------------------------------------ selection
HasFeature(featureId) == \E i \in 1..Len(features) : features[i].id = featureId

C3_NotFoundKeepsHighlight ==
    [][(SelectedFeatureEffect
          /\ mainVectorLayer # NULL
          /\ ~IsFalsy(selectedRowIndex')
          /\ ~\E i \in 1..Len(features) : features[i].id = selectedRowIndex')
        => featureStyle' = featureStyle]_vars

\* C5: no view.fit or view.animate call is made with an extent or a center
\* that has a non-finite coordinate.
C5_CameraCallsFinite ==
    \A k \in 1..Len(viewCalls) :
        /\ \A n \in 1..Len(viewCalls[k].extent) : isFinite(viewCalls[k].extent[n])
        /\ \A n \in 1..Len(viewCalls[k].center) : isFinite(viewCalls[k].center[n])

\* ---------------------------------------------------------------- styling
\* C6: when entityColor throws for a feature, that feature is styled with the
\* default theme (fill #3388ff at 0.2, stroke #3388ff, width 2, opacity 1) and
\* the exception does not leave the style pass: every feature gets a style.
C6_ThrowingOverrideFallsBack ==
    (renderPass.done /\ entityColor.given) =>
        /\ ~renderPass.error
        /\ Len(renderPass.styles) = Len(features)
        /\ \A i \in 1..Len(features) :
            (featureStyle[i] = "undefined"
                /\ entityColor.result[features[i].id] = "throws") =>
                renderPass.styles[i] =
                    styleOfConfig(features[i].geometry, DefaultStyleConfig)

\* ------------------------------------------------------------ base layers
LayersOn(ls, m) == {l \in ls : l.map = m}

\* C4: when the result of an initialization arrives after a newer
\* initialization was started, it is discarded: it adds no layer to the map
\* the component holds and leaves baseLayers, selectedBaseLayer and
\* layerError as they are.
C4_StaleResultDiscarded ==
    [][\A r \in 1..Len(runs) :
         (GetConfiguredBaseLayersSettles(r) /\ r < Len(runs)) =>
            /\ LayersOn(mapLayers', map') = LayersOn(mapLayers, map)
            /\ UNCHANGED <<baseLayers, selectedBaseLayer, layerError>>]_vars

\* ------------------------------------------------------- commit events
\* The WKT texts that encode a geometry: its own vertices, in order, in the
\* compact and in the spaced layout.
WKTEncodings(g) ==
    CASE g = [type |-> "Point", coords |-> <<<<1, 2>>>>] ->
            {"POINT(1 2)", "POINT (1 2)"}
      [] g = [type |-> "LineString", coords |-> <<<<0, 0>>, <<1, 1>>>>] ->
            {"LINESTRING(0 0,1 1)", "LINESTRING (0 0, 1 1)"}
      [] g = [type |-> "Polygon",
              coords |-> <<<<0, 0>>, <<1, 0>>, <<1, 1>>, <<0, 0>>>>] ->
            {"POLYGON((0 0,1 0,1 1,0 0))", "POLYGON ((0 0, 1 0, 1 1, 0 0))"}
      [] OTHER -> {}

\* C11: a commit event appends the finished geometry to the drawn features
\* and reports it to the subscriber exactly once, as a WKT text that encodes
\* that geometry.
C11_CommitAppendsAndReports ==
    [][DrawServiceDrawEnd =>
        /\ Len(drawingSource') = Len(drawingSource) + 1
        /\ SubSeq(drawingSource', 1, Len(drawingSource)) = drawingSource
        /\ Len(onPolygonDrawCalls') = Len(onPolygonDrawCalls) + 1
        /\ SubSeq(onPolygonDrawCalls', 1, Len(onPolygonDrawCalls)) = onPolygonDrawCalls
        /\ onPolygonDrawCalls'[Len(onPolygonDrawCalls')]
              \in WKTEncodings(drawingSource'[Len(drawingSource')])]_vars

\* C12: a commit event leaves the drawing state as it is: the recorded mode,
\* the handlers attached to the map and the handlers the service holds do not
\* change, so shapes can be committed one after another.
C12_CommitKeepsDrawingState ==
    [][DrawEndComponent =>
        UNCHANGED <<currentDrawingMode, interactions, drawInteraction,
                    modifyInteraction, snapInteraction>>]_vars

\* Two shapes were committed one after the other and the triple is still
\* attached.
C12_Witness ==
    /\ Len(history) = 2
    /\ history[1].op = "drawend" /\ history[2].op = "drawend"
    /\ Len(drawingSource) = 2
    /\ Cardinality(interactions) = 3
    /\ currentDrawingMode # DRAWING_MODES.NONE
    /\ isDrawing(svc)

\* C13: the recorded mode and the attached handlers agree: the mode is None
\* exactly when no handler is attached and isDrawing() is false, and in a
\* drawing mode exactly one triple is attached whose Draw handler is the one
\* the service holds and draws the geometry type of the mode.
C13_ModeMatchesHandlers ==
    /\ currentDrawingMode = DRAWING_MODES.NONE <=> ~isDrawing(svc)
    /\ currentDrawingMode = DRAWING_MODES.NONE <=> interactions = {}
    /\ currentDrawingMode # DRAWING_MODES.NONE =>
          /\ Cardinality(interactions) = 3
          /\ \A k \in {"Draw", "Modify", "Snap"} :
                Cardinality({h \in interactions : h.kind = k}) = 1
          /\ \A h \in AttachedDraw :
                /\ h.id = drawInteraction
                /\ h.type = geometryTypeOf(currentDrawingMode)

\* Drawing was cleared and then started again in line mode.
C13_Witness ==
    /\ Len(history) = 2
    /\ history[1].op = "handleClearDrawing"
    /\ history[2] = [op |-> "handleDrawingModeChange", arg |-> DRAWING_MODES.LINE]
    /\ currentDrawingMode = DRAWING_MODES.LINE
    /\ Cardinality(interactions) = 3

\* C14: a commit is never delivered to a handler generation that a later
\* startDrawing or stopDrawing replaced: whenever a commit is reported, it is
\* through the callback of the Draw handler the service currently holds.
C14_NoCommitToStaleGeneration ==
    [][DrawEnd =>
        \/ onDrawEndCalls' = onDrawEndCalls
        \/ /\ Len(onDrawEndCalls') = Len(onDrawEndCalls) + 1
           /\ \E h \in interactions :
                /\ h.id = drawInteraction
                /\ onDrawEndCalls'[Len(onDrawEndCalls')].cb = h.onDrawEnd]_vars

\* A shape committed after a second startDrawing was reported through the
\* second call's callback.
C14_Witness ==
    /\ LastOp.op = "drawend"
    /\ drawInteraction = 4
    /\ onDrawEndCalls # <<>>
    /\ onDrawEndCalls[Len(onDrawEndCalls)].cb = 4

\* C15: only the explicit clear empties the drawn features: startDrawing (to
\* any mode) and stopDrawing leave the drawing source as it is, and every
\* step that removes a drawn feature is a clearDrawing.
C15_OnlyClearEmptiesSource ==
    [][/\ (StartDrawing \/ StopDrawing) => drawingSource' = drawingSource
       /\ Len(drawingSource') < Len(drawingSource) => ClearDrawing]_vars

\* A polygon was committed and the mode then switched to line: the polygon is
\* still in the source.
C15_Witness ==
    /\ Len(history) = 2
    /\ history[1] = [op |-> "drawend", arg |-> "Polygon"]
    /\ history[2] = [op |-> "startDrawing", arg |-> DRAWING_MODES.LINE]
    /\ drawingSource # <<>>
    /\ drawingSource[Len(drawingSource)].type = "Polygon"
    /\ \E h \in AttachedDraw : h.type = "LineString"

\* C16: startDrawing with mode None does what stopDrawing does: from every
\* state both leave the same service and map state (no handler attached,
\* isDrawing() false, the drawn features as they were) after the same
\* removeInteraction calls, with or without a callback argument.
C16_StartNoneIsStop ==
    \A onDrawEnd \in {NULL, nextId} :
        /\ startDrawing(svc, DRAWING_MODES.NONE, onDrawEnd) = stopDrawing(svc)
        /\ ~isDrawing(startDrawing(svc, DRAWING_MODES.NONE, onDrawEnd))
        /\ startDrawing(svc, DRAWING_MODES.NONE, onDrawEnd).interactions = {}
        /\ startDrawing(svc, DRAWING_MODES.NONE, onDrawEnd).drawingSource
              = drawingSource

\* startDrawing(None) was called while a polygon triple was attached and a
\* shape was drawn: the three handlers were removed and the shape is kept.
C16_Witness ==
    /\ LastOp = [op |-> "startDrawing", arg |-> DRAWING_MODES.NONE]
    /\ Len(mapCalls) = 3
    /\ \A k \in 1..3 : mapCalls[k].call = "removeInteraction"
    /\ interactions = {}
    /\ drawInteraction = NULL
    /\ drawingSource # <<>>

\* C17: after any sequence of highlightFeature calls on the layer at most one
\* feature id is highlighted: any two features carrying the highlight style
\* have the same id.
C17_OneHighlightedId ==
    \A i, j \in 1..Len(features) :
        (featureStyle[i] = "highlight" /\ featureStyle[j] = "highlight") =>
            features[i].id = features[j].id

\* Two features share the id "001" and both are highlighted, after another
\* id had been selected.
C17_Witness ==
    /\ Len(features) = 2
    /\ features[1].id = "001" /\ features[2].id = "001"
    /\ featureStyle = <<"highlight", "highlight">>
    /\ Len(history) = 2
    /\ history[1] = [op |-> "select", arg |-> "002"]
    /\ history[2] = [op |-> "select", arg |-> "001"]

\* ------------------------------------------------------ resolved styles
\* The features that are selected when the renderer styles them: those
\* highlightFeature gave the highlight style, and in AdvancedOpenLayersMap
\* those whose id is the selected one.
IsSelectedFeature(i) ==
    \/ featureStyle[i] = "highlight"
    \/ component = "AdvancedOpenLayersMap" /\ features[i].id = selectedRowIndex

\* A color of a style, given as a hex string or as rgba components, is the
\* color of the hex string.
ColorIs(c, hex) ==
    IF "hex" \in DOMAIN c
    THEN c.hex = hex
    ELSE /\ c.r = parseInt16(slice(hex, 1, 3))
         /\ c.g = parseInt16(slice(hex, 3, 5))
         /\ c.b = parseInt16(slice(hex, 5, 7))

\* The fills and strokes a style is made of.
FillsOf(style) ==
    (IF "fill" \in DOMAIN style THEN {style.fill} ELSE {})
        \cup (IF "image" \in DOMAIN style THEN {style.image.fill} ELSE {})

StrokesOf(style) ==
    (IF "stroke" \in DOMAIN style THEN {style.stroke} ELSE {})
        \cup (IF "image" \in DOMAIN style THEN {style.image.stroke} ELSE {})

\* C18: a selected feature is drawn in the fixed selected palette (fill and
\* stroke #ff3388) with a stroke one wider than the default width, whatever
\* the override gives for it.
C18_SelectedUsesFixedPalette ==
    renderPass.done =>
        \A i \in 1..Len(renderPass.styles) :
            IsSelectedFeature(i) =>
                /\ \A fill \in FillsOf(renderPass.styles[i]) :
                      ColorIs(fill, DEFAULT_STYLES.SELECTED_FILL_COLOR)
                /\ \A stroke \in StrokesOf(renderPass.styles[i]) :
                      /\ ColorIs(stroke.color, DEFAULT_STYLES.SELECTED_STROKE_COLOR)
                      /\ stroke.width = DEFAULT_STYLES.STROKE_WIDTH + 1

\* The StyleConfig the override returns for feature i, when it returns one.
OverrideConfig(i) ==
    entityColorResult(entityColor.result[features[i].id], DEFAULT_STYLES.FILL_COLOR)

\* Feature i was styled in the last pass through the override's StyleConfig.
StyledByOverride(i) ==
    /\ renderPass.done
    /\ entityColor.given
    /\ i \in 1..Len(renderPass.styles)
    /\ featureStyle[i] = "undefined"
    /\ entityColor.result[features[i].id] # "throws"

IsHexColor(c) ==
    /\ Len(c) = 7
    /\ c[1] = "#"
    /\ \A k \in 2..7 : IsHex(c[k])

\* An opacity, in tenths, lies in [0,1].
InUnitRange(opacity) == opacity \in 0..10

\* C19: when the override returns a fill or stroke opacity outside [0,1], the
\* feature is styled with the default theme.
C19_OutOfRangeOpacityFallsBack ==
    \A i \in 1..Len(features) :
        (StyledByOverride(i)
            /\ (~InUnitRange(OverrideConfig(i).fillOpacity)
                \/ ~InUnitRange(OverrideConfig(i).strokeOpacity))) =>
            renderPass.styles[i] =
                styleOfConfig(features[i].geometry, DefaultStyleConfig)

\* C20: for a style spec with valid six-digit hex colors and opacities in
\* [0,1], 0 included, the alpha of every fill of the resolved style is
\* fillOpacity and the alpha of every stroke is strokeOpacity.
C20_AlphaEqualsOpacity ==
    \A i \in 1..Len(features) :
        (StyledByOverride(i)
            /\ IsHexColor(OverrideConfig(i).fillColor)
            /\ IsHexColor(OverrideConfig(i).strokeColor)
            /\ InUnitRange(OverrideConfig(i).fillOpacity)
            /\ InUnitRange(OverrideConfig(i).strokeOpacity)) =>
            /\ \A fill \in FillsOf(renderPass.styles[i]) :
                  fill.a = OverrideConfig(i).fillOpacity
            /\ \A stroke \in StrokesOf(renderPass.styles[i]) :
                  stroke.color.a = OverrideConfig(i).strokeOpacity

\* ------------------------------------------------- color-to-alpha errors
\* C21: hexToRgba fails for a color that is not '#' followed by six hex
\* digits: a pass that styles a feature through an override with such a
\* color ends in the error and holds no RGBA style for that feature.
C21_InvalidColorRejected ==
    renderPass.done =>
        \A i \in 1..Len(features) :
            (/\ entityColor.given
             /\ featureStyle[i] = "undefined"
             /\ entityColor.result[features[i].id] # "throws"
             /\ (~IsHexColor(OverrideConfig(i).fillColor)
                 \/ ~IsHexColor(OverrideConfig(i).strokeColor))) =>
                /\ renderPass.error
                /\ Len(renderPass.styles) < i

\* ------------------------------------------------------ fly-to policy
\* C23: the fly-to on selection picks the camera call by the geometry class
\* of the selected feature: a Point animates the center to the point at zoom
\* 17, a LineString or MultiLineString fits the extent with padding and
\* maxZoom 14, a Polygon or MultiPolygon fits it with padding and maxZoom 16,
\* any other class fits it with padding and no maxZoom.
C23_FlyToByGeometryClass ==
    (LastOp.op = "select" /\ mainVectorLayer # NULL) =>
        \A i \in 1..Len(features) :
            (/\ features[i].id = selectedRowIndex
             /\ features[i].geometry # NoGeometry
             /\ \A j \in 1..(i - 1) : features[j].id # selectedRowIndex) =>
                LET g == features[i].geometry
                    call == viewCalls[1]
                IN  /\ viewCalls # <<>>
                    /\ CASE g.type = "Point" ->
                              /\ call.method = "animate"
                              /\ call.center = <<g.coords[1][1], g.coords[1][2]>>
                              /\ call.zoom = 17
                         [] g.type \in {"LineString", "MultiLineString"} ->
                              /\ call.method = "fit"
                              /\ call.extent = getExtent(g)
                              /\ call.padding = 50
                              /\ call.maxZoom = 14
                         [] g.type \in {"Polygon", "MultiPolygon"} ->
                              /\ call.method = "fit"
                              /\ call.extent = getExtent(g)
                              /\ call.padding = 50
                              /\ call.maxZoom = 16
                         [] OTHER ->
                              /\ call.method = "fit"
                              /\ call.extent = getExtent(g)
                              /\ call.padding = 50
                              /\ call.maxZoom = NULL

C24_RingClosedOnce ==
    [][DrawServiceDrawEnd =>
        LET ring == drawingSource'[Len(drawingSource')].coords
            closed == IF ring[Len(ring)] = ring[1]
                      THEN ring ELSE Append(ring, ring[1])
        IN  onPolygonDrawCalls'[Len(onPolygonDrawCalls')] =
                "POLYGON ((" \o JoinCoordsSpaced(closed) \o "))"]_vars

\* ------------------------------------------------------------ tile grid
\* C25: the tile grid of every layer createWMTSLayer builds has one entry per
\* zoom level z in 0..MAX_ZOOM-1, with resolution[z] = span / (TILE_SIZE * 2^z)
\* for span the larger of the projection extent's width and height (so
\* resolution[0] = span / TILE_SIZE and each further level is half the one
\* before) and matrixId[z] the decimal string of z; for the 360 wide extent
\* and tile size 256 the first three are 1.40625, 0.703125 and 0.3515625.
C25_TileGridResolutions ==
    \A e \in mapLayers :
        e.layer.tileGrid # undefinedTileGrid =>
            LET grid == e.layer.tileGrid
                width == projectionExtent[3] - projectionExtent[1]
                height == projectionExtent[4] - projectionExtent[2]
                span == IF width > height THEN width ELSE height
            IN  /\ Len(grid.resolutions) = MAX_ZOOM
                /\ Len(grid.matrixIds) = MAX_ZOOM
                /\ grid.resolutions[1].num * TILE_SIZE = span * grid.resolutions[1].den
                /\ \A z \in 0..(MAX_ZOOM - 2) :
                      2 * grid.resolutions[z + 2].num * grid.resolutions[z + 1].den
                          = grid.resolutions[z + 1].num * grid.resolutions[z + 2].den
                /\ \A z \in 0..(MAX_ZOOM - 1) : grid.matrixIds[z + 1] = ToString(z)
                /\ grid.matrixIds[1] = "0" /\ grid.matrixIds[MAX_ZOOM] = "20"
                /\ (span = 360 /\ TILE_SIZE = 256) =>
                      /\ grid.resolutions[1].num * 100000 = 140625 * grid.resolutions[1].den
                      /\ grid.resolutions[2].num * 1000000 = 703125 * grid.resolutions[2].den
                      /\ grid.resolutions[3].num * 10000000 = 3515625 * grid.resolutions[3].den

\* A layer built by createWMTSLayer is on the map.
C25_Witness ==
    \E e \in mapLayers :
        /\ e.layer.id = "orthophoto-best"
        /\ Len(e.layer.tileGrid.resolutions) = MAX_ZOOM

\* The layer objects the map shows: map.getLayers() of the map the
\* component holds.
LayersOfMap ==
    IF component = "AdvancedOpenLayersMap"
    THEN {layerArray[i].layer : i \in 1..Len(layerArray)}
    ELSE {e.layer : e \in LayersOn(mapLayers, map)}

\* The layer objects ever added to a map.
LayersBuilt ==
    {e.layer : e \in mapLayers} \cup {layerArray[i].layer : i \in 1..Len(layerArray)}

\* C26: in every tile grid built for a base layer the resolutions strictly
\* decrease with the zoom level.
C26_ResolutionsStrictlyDecreasing ==
    \A l \in LayersBuilt :
        LET resolutions == l.tileGrid.resolutions
        IN  \A z \in 1..(Len(resolutions) - 1) :
                Greater(resolutions[z], resolutions[z + 1])

\* Two layers with a tile grid of more than one level have been built, one
\* of them by a later run than the first.
C26_Witness ==
    \E l1, l2 \in LayersBuilt :
        /\ l1.run < l2.run
        /\ Len(l1.tileGrid.resolutions) > 1
        /\ Len(l2.tileGrid.resolutions) > 1

\* ------------------------------------------------------ fallback layer
\* C28: when the base-layer fetch yields no layers, the initialization ends
\* with layerError set and loading over, exactly one layer added to the map
\* of the run, the fallback layer, which is visible, is the only layer kept
\* in baseLayers and is the selected base layer; so that map has a visible
\* base layer.
C28_FallbackOnEmptyFetch ==
    [][\A r \in 1..Len(runs) :
          SettlesWith(r, <<>>) =>
              LET added == mapLayers' \ mapLayers
              IN  /\ layerError' # "null"
                  /\ isLoadingLayers' = FALSE
                  /\ Cardinality(added) = 1
                  /\ \A e \in added :
                        /\ e.map = runs[r].map
                        /\ e.layer.id = "fallback"
                        /\ e.layer \in visibleLayers'
                        /\ baseLayers' = {e.layer}
                  /\ selectedBaseLayer' = "fallback"
                  /\ \E e \in mapLayers' :
                        e.map = runs[r].map /\ e.layer \in visibleLayers']_vars

\* A run has ended in the fallback: the error is set and the fallback layer
\* is on the map, visible and selected.
C28_Witness ==
    /\ layerError = "No base layers configured on server"
    /\ selectedBaseLayer = "fallback"
    /\ \E e \in mapLayers :
          /\ e.layer.id = "fallback"
          /\ e.layer \in visibleLayers
          /\ baseLayers = {e.layer}
          /\ runs[e.layer.run].pc = "done"

\* ------------------------------------------------ invalid configuration
\* C29: a base layer whose configured URL template lacks one of the
\* placeholders {TileMatrixSet}, {TileMatrix}, {TileCol}, {TileRow} is not
\* created and not added to the map by the initialization that receives it.
C29_InvalidLayerNotAdded ==
    [][\A r \in 1..Len(runs) : \A configuredLayers \in ConfiguredResults :
          SettlesWith(r, configuredLayers) =>
              \A k \in 1..Len(configuredLayers) :
                  ~validateWMTSUrl(configuredLayers[k].url) =>
                      ~\E e \in mapLayers' :
                          /\ e.layer.run = r
                          /\ e.layer.id = configuredLayers[k].id]_vars

\* ------------------------------------------------- one visible base layer
\* C30: once every base-layer initialization is over, exactly one base layer
\* of the map is visible, it is the selected one, and no base layer of an
\* earlier initialization is left on the map.
C30_OneVisibleBaseLayer ==
    (runs # <<>> /\ \A r \in 1..Len(runs) : runs[r].pc = "done") =>
        LET tiles == {l \in LayersOfMap : l.url # <<>>}
            visible == tiles \cap visibleLayers
        IN  /\ Cardinality(visible) = 1
            /\ \A l \in visible : l.id = selectedBaseLayer
            /\ \A l1, l2 \in tiles : l1.id = l2.id => l1 = l2

\* -------------------------------------------------- useMapInitialization
\* The map instances attached to an element.
Attached == {i \in 1..Len(maps) : maps[i].target # "undefined"}

\* C35: at most one map instance is attached to the target element at a
\* time, and while the component is mounted with isMapReady true the map
\* returned to it is the instance that is attached: not null and not a map
\* whose target was cleared.
C35_ReadyMapIsAttached ==
    /\ Cardinality(Attached) <= 1
    /\ (mounted /\ returned.isMapReady) =>
           /\ returned.map # NULL
           /\ returned.map \in Attached

\* ----------------------------------------------------- main-layer effect
\* C31: when the timer of an auto-fit fires after the layer it was set for
\* has been removed from its map, no camera call is made.
C31_NoAutoFitForRemovedLayer ==
    [][\A t \in timers :
          (/\ AutoFitTimer(t)
           /\ [map |-> t.map, layer |-> VectorLayer(t.layer, "layer")] \notin mapLayers)
          => viewCalls' = <<>>]_vars

\* The main vector layers on the map the component holds.
MainLayersOnMap == {l \in LayersOfMap : l.id = "layer"}

\* C33: the map holds at most one main vector layer, and the layer recorded
\* in mainVectorLayer is on the map.
C33_OneMainLayerOnMap ==
    /\ Cardinality(MainLayersOnMap) <= 1
    /\ mainVectorLayer # NULL =>
           \E l \in MainLayersOnMap : l.run = mainVectorLayer

\* ------------------------------------------------- cancelled selection
\* C32: when the selection changes to an empty id, the style of every
\* feature of the main layer stays as the previous selection set it and no
\* camera call is made.
C32_EmptySelectionKeepsStyles ==
    [][(selectedRowIndex' # selectedRowIndex /\ IsFalsy(selectedRowIndex'))
        => (featureStyle' = featureStyle /\ viewCalls' = <<>>)]_vars

\* ------------------------------------------------- loading always ends
\* C34: every base-layer initialization that starts, setting
\* isLoadingLayers to true, eventually ends with isLoadingLayers false,
\* whether the discovery resolves to layers, resolves to no layers or
\* rejects, provided the awaited promise eventually settles.
C34_LoadingEventuallyEnds ==
    \A r \in 1..MaxLoads :
        (Len(runs) >= r)
            ~> (Len(runs) >= r /\ runs[r].pc = "done" /\ ~isLoadingLayers)

\* A run that awaited has ended through the catch block after a rejection
\* and loading is over.
C34_Witness ==
    /\ component = "ImprovedMapComponent.tsx"
    /\ layerError = "Failed to fetch"
    /\ ~isLoadingLayers
    /\ \E r \in 1..Len(runs) : runs[r].pc = "done"

\* --------------------------------------------- per-layer failure isolation
\* The server's answer to a query yields a WMTS link: the response is ok,
\* has a record, and the first record has a link whose scheme is WMTS.
ResolvesToWMTS(response) ==
    /\ response.fetch = "ok"
    /\ response.records # <<>>
    /\ \E j \in 1..Len(response.records[1].links) :
          response.records[1].links[j].scheme = "WMTS"

\* The ids of the first n configured layers whose query yielded a WMTS link,
\* in configuration order.
RECURSIVE ResolvedIds(_)
ResolvedIds(n) ==
    IF n = 0 THEN <<>>
    ELSE IF ResolvesToWMTS(responses[n])
         THEN Append(ResolvedIds(n - 1), WMTSConfigService_baseLayerConfigs[n].id)
         ELSE ResolvedIds(n - 1)

\* C36: getConfiguredBaseLayers isolates failures per layer: a query that
\* fails, yields no record or yields a record without a WMTS link drops
\* only its own layer; the result holds exactly the configured layers whose
\* query yielded a WMTS link, in configuration order, and the call never
\* rejects.
C36_FailuresIsolatedPerLayer ==
    /\ settled # "rejected"
    /\ [k \in 1..Len(catalogLayers) |-> catalogLayers[k].id]
           = ResolvedIds(Len(responses))
    /\ settled = "fulfilled" =>
           Len(responses) = Len(WMTSConfigService_baseLayerConfigs)

\* A call has returned the second layer alone: the first layer's query
\* failed.
C36_Witness ==
    /\ settled = "fulfilled"
    /\ responses[1].fetch = "failed"
    /\ Len(catalogLayers) = 1
    /\ catalogLayers[1].id = "bluemarble"

\* ------------------------------------------------- zoom requests in range
\* C37: after any sequence of zoomIn and zoomOut from a zoom inside
\* [MIN_ZOOM, MAX_ZOOM], every zoom requested of view.animate is inside
\* that range.
C37_RequestedZoomInRange ==
    \A k \in 1..Len(animation) :
        /\ animation[k].zoom >= MIN_ZOOM
        /\ animation[k].zoom <= MAX_ZOOM

\* ------------------------------------------------- extents are valid
\* C38: extractBoundingBox returns null or an extent [minX, minY, maxX,
\* maxY] of four finite numbers with minX <= maxX and minY <= maxY, for
\* every footprint, a Polygon with an empty outer ring included.
C38_BoundingBoxNullOrValid ==
    \A k \in 1..Len(boundingBox) :
        \/ boundingBox[k].null
        \/ LET e == boundingBox[k].value
           IN  /\ \A i \in 1..4 : isFinite(e[i])
               /\ ~NumLess(e[3], e[1])
               /\ ~NumLess(e[4], e[2])

====
